---- MODULE Spec2Model ----
(***************************************************************************)
(* obs-vkcapture: the Vulkan capture layer (src/src/vklayer.c) and the     *)
(* capture broker of the OBS plugin (src/unnamed/part_000).                *)
(*                                                                         *)
(* The layer part is a state machine over the layer's entry points         *)
(* (CreateDevice, DestroyDevice, CreateSwapchainKHR, DestroySwapchainKHR,  *)
(* QueuePresentKHR); each action is one whole entry-point call.  The       *)
(* results of the calls the layer makes into the kernel and into the next  *)
(* layer (connect, recv, sendmsg, CreateImage, QueueSubmit, ...) are the   *)
(* inputs of an action.  The broker part follows further down.             *)
(***************************************************************************)
EXTENDS Integers, Sequences, FiniteSets, TLC

(***************************************************************************)
(* Universe of handles and program constants                               *)
(***************************************************************************)
NULL == "NULL"

\* capture_update_socket: "if (++limiter < 60) return;"
LIMITER == 60

\* the fd capture_try_connect stores in connfd (any value >= 0)
SOCK == 3
\* the fd GetMemoryFdKHR stores in dmabuf_fd (any value >= 0)
DMABUF == 4

\* saturation of the history counter that counts the fds exported for one
\* swapchain record
ExportCap == 2

Devices == {"d1", "d2"}
Handles == {"s1", "s2"}
Instances == {"i1", "i2"}

ValidExtent == [width |-> 1920, height |-> 1080]
ZeroExtent == [width |-> 0, height |-> 0]
ZeroWidth == [width |-> 0, height |-> 1080]
ZeroHeight == [width |-> 1920, height |-> 0]
\* the extent after a resize of the window
SmallExtent == [width |-> 1280, height |-> 720]

ConnectResults == {"ok", "fail"}
\* recv(connfd, buf, 1, 0): one byte, 0 (EOF), or -1 with an errno
RecvResults == {"byte", "eagain", "eof", "econnreset", "eio"}
\* where vk_shtex_init_vulkan_tex stops
InitResults == {"ok", "CreateImage", "memtype", "AllocateMemory",
                "BindImageMemory2", "GetMemoryFdKHR"}
SendResults == {"ok", "fail"}
SubmitResults == {"ok", "fail"}

VARIABLES
    connfd,      \* capture_data.connfd
    capturing,   \* capture_data.capturing
    limiter,     \* capture_update_socket's static limiter
    devices,     \* the devices registered in the list "devices"
    valid,       \* vk_data.valid, per device
    cur_swap,    \* vk_data.cur_swap, per device: a swapchain handle or NULL
    swaps,       \* vk_data.swaps, per device: handle -> vk_swap_data or NULL
    queues,      \* vk_data.queues, per device: the vk_queue_data of its queue
    appSwaps,    \* the swapchains that exist in the next layer: <<device, handle>>
    crashed,     \* the process dereferenced a NULL pointer
    hazard,      \* history: a frame slot was reset or destroyed with its
                 \* submission neither waited for nor completed
    last,        \* history: what the last entry-point call did
    loader       \* what the loader has set up: the static vulkan_seen, the
                 \* list "instances" (per handle "none", "valid" or "invalid")
                 \* and app, the instances the application holds

layerVars == <<connfd, capturing, limiter, devices, valid, cur_swap, swaps,
               queues, appSwaps, crashed, hazard, last, loader>>

VARIABLES
    conns,       \* the producers' connections to the broker's socket: state,
                 \* messages in flight, the broker's fd for the connection
    server,      \* the static struct server: quit, fds, clients
    thr,         \* server_thread_run: its position and its locals
    rfd,         \* every fd the broker received via SCM_RIGHTS, by fd id:
                 \* the client it came from and whether it is open
    ctx,         \* the vkcapture_source_t of the source
    sameSize,    \* the build: CAPTURE_CLIENT_DATA_SIZE = CAPTURE_TEXTURE_DATA_SIZE
    stamp,       \* the number of messages the producers have sent
    cleaned,     \* history: the clients server_cleanup_client has removed
    lastTick,    \* history: what the last video tick read and did
    lastRecv     \* history: what the last round of the recvmsg loop read
                 \* and did

brokerVars == <<conns, server, thr, rfd, ctx, sameSize, stamp, cleaned, lastTick,
                lastRecv>>

VARIABLES
    inflight,    \* per application thread: where its call of vk_capture
                 \* stands and what it has read from the shared statics
    mutex,       \* per pthread mutex of the program: the thread that holds it
    locking      \* per thread: the lock and unlock calls its current entry
                 \* point still has to make, in order

threadVars == <<inflight, mutex, locking>>

vars == <<layerVars, brokerVars, threadVars>>

(***************************************************************************)
(* Records                                                                 *)
(***************************************************************************)
\* struct vk_swap_data as OBS_CreateSwapchainKHR fills it.  export_image is
\* "null", "live" or "dangling" (a destroyed handle still stored);
\* exports, lost and twice are history fields: the number of fds exported
\* for this record (saturating), whether a live image, memory or fd of this
\* record was overwritten, and whether an image handle was destroyed twice.
NewSwapData(extent, count) ==
    [image_extent |-> extent, image_count |-> count,
     export_image |-> "null", export_mem |-> "null", dmabuf_fd |-> -1,
     captured |-> FALSE, exports |-> 0, lost |-> FALSE, twice |-> FALSE]

\* struct vk_frame_data after vk_shtex_create_frame_objects.  fence is
\* "unsignaled", "pending" (submitted, the GPU has not finished) or "signaled".
NewFrame == [cmd_buffer_busy |-> FALSE, fence |-> "unsignaled"]

\* struct vk_queue_data as add_queue_data fills it
NewQueueData(transfer) ==
    [supports_transfer |-> transfer, frames |-> <<>>, frame_index |-> 0,
     frame_count |-> 0]

\* get_obj_data found no node: the NULL vk_swap_data
NoSwap == [null |-> TRUE]

\* no vk_queue_data (add_queue_data never ran for the device)
NoQueue == [supports_transfer |-> FALSE, frames |-> <<>>, frame_index |-> 0,
            frame_count |-> 0]

\* sizeof(struct msg_texture_data): five ints, four bytes of padding and a
\* uint64_t
MsgTextureDataSize == 32

\* No message: what capture_init_shtex has sent when it did not run
NoMsg == [len |-> 0, width |-> 0, height |-> 0, fourcc |-> 0, modifiers |-> 0,
          fds |-> 0, fd |-> -1]

\* The application threads that present, and a thread that is in no call
Threads == {"t1", "t2"}

NoCall == [pc |-> "idle", dev |-> NULL, sc |-> NULL, l |-> 0, inited |-> FALSE,
           tried |-> FALSE]

\* The mutexes: one per vk_obj_list (instances, devices, and the queues and
\* swaps lists of each vk_data) and the broker's server.mutex
Mutexes ==
    {<<"instances", NULL>>, <<"devices", NULL>>, <<"server", NULL>>}
        \cup ({"queues", "swaps"} \X Devices)

\* The threads that take them: the application's threads in the layer, and
\* in the broker server_thread_run and the thread of the video tick
LockThreads == Threads \cup {"server_thread_run", "video_tick"}

NoLast ==
    [op |-> "none", dev |-> NULL, sc |-> NULL, sent |-> "none", copied |-> FALSE,
     waited |-> FALSE, next_calls |-> 0, tracked |-> FALSE, lost |-> FALSE,
     twice |-> FALSE, byte |-> FALSE, touched |-> FALSE, nth |-> 0, calls |-> 0,
     prev |-> NULL, msg |-> NoMsg, inst |-> NULL, arg |-> 0, ret |-> 0,
     rcv |-> "none"]

\* The history record of the next call: calls, the capture_update_socket
\* calls made since the socket was last touched, and prev, the device that
\* made the last call before the limiter opens, are carried over
NextLast == [NoLast EXCEPT !.calls = last.calls, !.prev = last.prev]

Min(a, b) == IF a < b THEN a ELSE b

(***************************************************************************)
(* Records and start state of the broker                                   *)
(***************************************************************************)
\* connections a run opens, messages the producers send, fds one message
\* carries
MaxConns == 2
MaxSends == 3
MaxMsgFds == 2

Conns == 1 .. MaxConns

\* the fd of the listening socket; the connection k is accepted as fd
\* LISTENFD + k
LISTENFD == 100

SockFd(k) == LISTENFD + k

\* "memset(&client.buf_fds, -1, sizeof(client.buf_fds))"
NoFds == <<-1, -1, -1, -1>>

\* a zeroed struct capture_texture_data; ver stamps the message the
\* contents came from
ZeroTdata == [ver |-> 0, nfd |-> 0]

\* The vkcapture_client_t the accept branch pushes.  fdver is a history
\* field: the stamp of the message whose fds are in buf_fds.
NewClient(id, fd) ==
    [id |-> id, sockfd |-> fd, buf_id |-> 0, buf_fds |-> NoFds, cdata |-> 0,
     tdata |-> ZeroTdata, fdver |-> 0]

\* A connection no producer has opened.  sock is the broker's fd for it:
\* "none", "open", "closed" or "twice" (closed twice).
NoConn == [state |-> "none", queue |-> <<>>, peer_closed |-> FALSE, sock |-> "none"]

\* The messages a producer can send: the first byte ("client" for
\* CAPTURE_CLIENT_DATA_TYPE, "texture" for CAPTURE_TEXTURE_DATA_TYPE, "other"),
\* the nfd field of a texture message, and the number of fds in its
\* SCM_RIGHTS control message
Messages ==
    [type : {"client", "other"}, nfd : {0}, fds : {0, 1}]
        \cup [type : {"texture"}, nfd : 1 .. MaxMsgFds, fds : 0 .. MaxMsgFds]

\* A texture message whose control message carries one fd more than the
\* local array "int buf_fds[4]" of the texture branch has slots
TooManyFds == [type |-> "texture", nfd |-> 1, fds |-> Len(NoFds) + 1]

\* The vkcapture_source_t vkcapture_source_create returns (bzalloc).  fdver
\* is a history field: the stamp of the message whose fds the texture was
\* imported from.
NoSource ==
    [texture |-> FALSE, buf_id |-> 0, client_id |-> 0, tdata |-> ZeroTdata,
     fdver |-> 0]

NoTick ==
    [imported |-> FALSE, tdver |-> 0, fdver |-> 0, buf_id |-> 0, nfd |-> 0,
     nvalid |-> 0, cleared |-> FALSE, kicked |-> 0, kickfd |-> 0, wrote |-> FALSE,
     found |-> 0, nclients |-> 0]

\* No round of the recvmsg loop has run.  op is what the round met: "eagain",
\* "eof", the kind of the message read ("client", "texture", "other"), or
\* how the texture branch ended ("nocmsg", "mismatch", "installed"); id is
\* the client, ver the stamp of the message, fds the fds that arrived with it.
NoRecv == [op |-> "none", id |-> 0, ver |-> 0, fds |-> {}]

\* The locals of server_thread_run when it reaches its loop: the socket file
\* is bound and the listening socket open (sockfd)
ThreadStart ==
    [pc |-> "poll", i |-> 0, controllen |-> 0, buf_fds |-> <<>>,
     clientid |-> 0, bufid |-> 0, sockfd |-> "open", bound |-> TRUE]

\* The state once server_thread_run has reached its loop, in a build where
\* the two message sizes are equal (same) or differ
BrokerStart(same) ==
    /\ conns = [k \in Conns |-> NoConn]
    /\ server = [quit |-> FALSE, fds |-> <<[fd |-> LISTENFD, revents |-> FALSE]>>,
                 clients |-> <<>>]
    /\ thr = ThreadStart
    /\ rfd = <<>>
    /\ ctx = NoSource
    /\ sameSize = same
    /\ stamp = 0
    /\ cleaned = {}
    /\ lastTick = NoTick
    /\ lastRecv = NoRecv

(***************************************************************************)
(* Producer socket (capture_data)                                          *)
(*                                                                         *)
(* The functions below are applied to a call context c: the process-wide   *)
(* state (connfd, capturing, limiter, crashed, hazard), the state of the   *)
(* device of the call (swaps, cur_swap, valid, queue) and what the call    *)
(* did so far (sent, copied, waited, updated, touched).                    *)
(***************************************************************************)
\* capture_try_connect: connfd is set only when connect succeeds
capture_try_connect(c, conn) ==
    IF conn = "ok" THEN [c EXCEPT !.connfd = SOCK] ELSE c

\* A capture_update_socket that keeps the socket whatever recv returns
RecvCloses_Never(rcv) == FALSE

\* A capture_update_socket that closes the socket on EOF only
RecvCloses_EofOnly(rcv) == rcv = "eof"

\* recv returned n <= 0: EOF, or -1 with an errno other than EAGAIN/EWOULDBLOCK
RecvCloses(rcv) == rcv \in {"eof", "econnreset", "eio"}

\* A limiter that lets every 30th call through
Polls_Half(c) == c.limiter + 1 >= LIMITER \div 2

\* Whether this call of capture_update_socket passes the limiter
Polls(c) == c.limiter + 1 >= LIMITER

capture_update_socket(c, conn, rcv) ==
    IF ~Polls(c) THEN [c EXCEPT !.limiter = c.limiter + 1, !.updated = TRUE]
    ELSE LET c0 == [c EXCEPT !.limiter = 0, !.updated = TRUE, !.touched = TRUE]
             c1 == IF c0.connfd < 0 THEN capture_try_connect(c0, conn) ELSE c0
         IN  IF c1.connfd < 0 THEN c1
             ELSE IF RecvCloses(rcv) THEN [c1 EXCEPT !.connfd = -1]
             ELSE c1

capture_should_stop(c) == c.capturing /\ c.connfd < 0

capture_should_init(c) == ~c.capturing /\ c.connfd >= 0

capture_ready(c) == c.capturing

\* The struct msg_texture_data capture_init_shtex fills for vk_swap_data s,
\* with the length of the iovec and the fd of the SCM_RIGHTS control message
\* (stride and offset, the layout of the export image, are left out)
msg_texture_data(s) ==
    [len |-> MsgTextureDataSize,
     width |-> s.image_extent.width, height |-> s.image_extent.height,
     fourcc |-> 0, modifiers |-> 0, fds |-> 1, fd |-> s.dmabuf_fd]

\* capture_init_shtex: the result of sendmsg is only printed
capture_init_shtex(c, sc, snd) ==
    [c EXCEPT !.sent = snd,
              !.msg = msg_texture_data(c.swaps[sc]),
              !.swaps[sc].captured = TRUE,
              !.swaps[sc].exports = Min(@ + 1, ExportCap),
              !.capturing = TRUE]

(***************************************************************************)
(* Export image                                                            *)
(***************************************************************************)
\* A vk_shtex_free that leaves the dmabuf fd open
FreeSwapExport_KeepFd(s) ==
    [s EXCEPT !.export_mem = "null", !.export_image = "null", !.captured = FALSE]

\* The body of vk_shtex_free's loop for one vk_swap_data
FreeSwapExport(s) ==
    [s EXCEPT !.twice = @ \/ s.export_image = "dangling",
              !.dmabuf_fd = -1,
              !.export_mem = "null",
              !.export_image = "null",
              !.captured = FALSE]

\* vk_shtex_wait_until_idle returns before it waits for anything
vk_shtex_free(c) ==
    [c EXCEPT !.swaps = [sc \in DOMAIN c.swaps |->
                            IF c.swaps[sc] = NoSwap THEN NoSwap
                            ELSE FreeSwapExport(c.swaps[sc])],
              !.cur_swap = NULL,
              !.capturing = FALSE]

\* vk_shtex_init_vulkan_tex on vk_swap_data s, stopping where ini says.
\* Every handle the function stores overwrites the one stored before.
vk_shtex_init_vulkan_tex(s, ini) ==
    LET lostImg == s.export_image = "live"
        lostMem == s.export_mem = "live"
        lostFd == s.dmabuf_fd >= 0
    IN  CASE ini = "CreateImage" ->
               [s EXCEPT !.export_image = "null", !.lost = @ \/ lostImg]
          [] ini = "memtype" ->
               [s EXCEPT !.export_image = "null", !.lost = @ \/ lostImg]
          [] ini = "AllocateMemory" ->
               [s EXCEPT !.export_image = "dangling", !.lost = @ \/ lostImg]
          [] ini = "BindImageMemory2" ->
               [s EXCEPT !.export_image = "null", !.export_mem = "live",
                         !.lost = @ \/ lostImg \/ lostMem]
          [] ini = "GetMemoryFdKHR" ->
               [s EXCEPT !.export_image = "null", !.export_mem = "live",
                         !.lost = @ \/ lostImg \/ lostMem]
          [] OTHER ->
               [s EXCEPT !.export_image = "live", !.export_mem = "live",
                         !.dmabuf_fd = DMABUF,
                         !.lost = @ \/ lostImg \/ lostMem \/ lostFd]

\* vk_shtex_init: [ok, c]
vk_shtex_init(c, sc, ini, snd) ==
    LET c1 == [c EXCEPT !.swaps[sc] = vk_shtex_init_vulkan_tex(@, ini)]
    IN  IF ini # "ok" THEN [ok |-> FALSE, c |-> c1]
        ELSE LET c2 == capture_init_shtex([c1 EXCEPT !.cur_swap = sc], sc, snd)
             IN  [ok |-> c2.swaps[sc].captured, c |-> c2]

(***************************************************************************)
(* Frame ring                                                              *)
(***************************************************************************)
\* Mutant of vk_shtex_clear_fence: the busy slot is reused without a wait
vk_shtex_clear_fence_NoWait(f) == f

\* A vk_shtex_clear_fence that waits for the fence and does not reset it
vk_shtex_clear_fence_NoReset(f) ==
    IF f.cmd_buffer_busy
    THEN [f EXCEPT !.fence = "signaled", !.cmd_buffer_busy = FALSE]
    ELSE f

\* vk_shtex_clear_fence: WaitForFences, ResetFences
vk_shtex_clear_fence(f) ==
    IF f.cmd_buffer_busy
    THEN [f EXCEPT !.fence = "unsignaled", !.cmd_buffer_busy = FALSE]
    ELSE f

\* vk_shtex_destroy_fence up to DestroyFence: WaitForFences
vk_shtex_destroy_fence(f) ==
    IF f.cmd_buffer_busy
    THEN [f EXCEPT !.fence = "signaled", !.cmd_buffer_busy = FALSE]
    ELSE f

\* A slot the layer is about to reset, re-record or destroy while its
\* submission is neither waited for nor completed
Unwaited(f) == f.cmd_buffer_busy \/ f.fence = "pending"

\* The call that turned slot before into slot after waited for its fence
Waited(before, after) == before.cmd_buffer_busy /\ ~Unwaited(after)

\* vk_shtex_destroy_frame_objects: [q, hazard, waited]
vk_shtex_destroy_frame_objects(q) ==
    LET done == [i \in DOMAIN q.frames |-> vk_shtex_destroy_fence(q.frames[i])]
    IN  [q |-> [q EXCEPT !.frames = <<>>, !.frame_count = 0],
         hazard |-> \E i \in DOMAIN done : Unwaited(done[i]),
         waited |-> \E i \in DOMAIN done : Waited(q.frames[i], done[i])]

\* A ring of one slot more than the swapchain has images
vk_shtex_create_frame_objects_OneMore(q, image_count) ==
    [q EXCEPT !.frames = [i \in 1..(image_count + 1) |-> NewFrame],
              !.frame_index = 0,
              !.frame_count = image_count + 1]

vk_shtex_create_frame_objects(q, image_count) ==
    [q EXCEPT !.frames = [i \in 1..image_count |-> NewFrame],
              !.frame_index = 0,
              !.frame_count = image_count]

\* vk_shtex_capture on the tracked swapchain sc
\* A capture that takes the slot at frame_index and does not advance it
vk_shtex_capture_SameSlot(c, sc, sub) ==
    LET image_count == c.swaps[sc].image_count
        grow == c.queue.frame_count < image_count
        d0 == IF grow /\ c.queue.frame_count > 0
              THEN vk_shtex_destroy_frame_objects(c.queue)
              ELSE [q |-> c.queue, hazard |-> FALSE, waited |-> FALSE]
        q1 == IF grow THEN vk_shtex_create_frame_objects(d0.q, image_count)
              ELSE d0.q
        frame_index == q1.frame_index
        f1 == vk_shtex_clear_fence(q1.frames[frame_index + 1])
        f2 == IF sub = "ok"
              THEN [f1 EXCEPT !.cmd_buffer_busy = TRUE, !.fence = "pending"]
              ELSE f1
    IN  [c EXCEPT !.queue = [q1 EXCEPT
                                !.frame_index = frame_index,
                                !.frames[frame_index + 1] = f2],
                  !.hazard = @ \/ d0.hazard \/ Unwaited(f1),
                  !.waited = d0.waited \/ Waited(q1.frames[frame_index + 1], f1),
                  !.copied = TRUE]

vk_shtex_capture(c, sc, sub) ==
    LET image_count == c.swaps[sc].image_count
        grow == c.queue.frame_count < image_count
        d0 == IF grow /\ c.queue.frame_count > 0
              THEN vk_shtex_destroy_frame_objects(c.queue)
              ELSE [q |-> c.queue, hazard |-> FALSE, waited |-> FALSE]
        q1 == IF grow THEN vk_shtex_create_frame_objects(d0.q, image_count)
              ELSE d0.q
        frame_index == q1.frame_index
        f1 == vk_shtex_clear_fence(q1.frames[frame_index + 1])
        f2 == IF sub = "ok"
              THEN [f1 EXCEPT !.cmd_buffer_busy = TRUE, !.fence = "pending"]
              ELSE f1
    IN  [c EXCEPT !.queue = [q1 EXCEPT
                                !.frame_index = (frame_index + 1) % q1.frame_count,
                                !.frames[frame_index + 1] = f2],
                  !.hazard = @ \/ d0.hazard \/ Unwaited(f1),
                  !.waited = d0.waited \/ Waited(q1.frames[frame_index + 1], f1),
                  !.copied = TRUE]

\* A test of the width alone
valid_rect_WidthOnly(s) == s.image_extent.width # 0

valid_rect(s) == s.image_extent.width # 0 /\ s.image_extent.height # 0

Crash(c) == [c EXCEPT !.crashed = TRUE]

\* The part of vk_capture up to and including the capture_should_stop test
CaptureStop(c, conn, rcv) ==
    LET c1 == capture_update_socket(c, conn, rcv)
    IN  IF capture_should_stop(c1) THEN vk_shtex_free(c1) ELSE c1

\* The capture_should_init part of vk_capture; swap is get_swap_data's
\* result, the handle of a tracked swapchain or NULL
CaptureInit(c, swap, ini, snd) ==
    IF ~capture_should_init(c) THEN c
    ELSE IF swap = NULL THEN Crash(c)
    ELSE IF ~valid_rect(c.swaps[swap]) THEN c
    ELSE LET r == vk_shtex_init(c, swap, ini, snd)
         IN  IF r.ok THEN r.c
             ELSE [vk_shtex_free(r.c) EXCEPT !.valid = FALSE]

\* A capture_ready part that returns on a mismatch without freeing
CaptureCopy_NoFree(c, swap, sub) ==
    IF c.crashed \/ ~capture_ready(c) THEN c
    ELSE IF swap # c.cur_swap THEN c
    ELSE IF swap = NULL THEN Crash(c)
    ELSE vk_shtex_capture(c, swap, sub)

\* The capture_ready part of vk_capture
CaptureCopy(c, swap, sub) ==
    IF c.crashed \/ ~capture_ready(c) THEN c
    ELSE IF swap # c.cur_swap THEN vk_shtex_free(c)
    ELSE IF swap = NULL THEN Crash(c)
    ELSE vk_shtex_capture(c, swap, sub)

vk_capture(c, swap, conn, rcv, ini, snd, sub) ==
    CaptureCopy(CaptureInit(CaptureStop(c, conn, rcv), swap, ini, snd), swap, sub)

(***************************************************************************)
(* Entry points                                                            *)
(***************************************************************************)
\* The context of a call on device d
Ctx(d) ==
    [connfd |-> connfd, capturing |-> capturing, limiter |-> limiter,
     crashed |-> crashed, hazard |-> hazard, swaps |-> swaps[d],
     cur_swap |-> cur_swap[d], valid |-> valid[d], queue |-> queues[d],
     sent |-> "none", copied |-> FALSE, waited |-> FALSE, updated |-> FALSE,
     touched |-> FALSE, msg |-> NoMsg]

\* The state after a call on device d that ended in context c
Commit(d, c) ==
    /\ connfd' = c.connfd
    /\ capturing' = c.capturing
    /\ limiter' = c.limiter
    /\ crashed' = c.crashed
    /\ hazard' = c.hazard
    /\ swaps' = [swaps EXCEPT ![d] = c.swaps]
    /\ cur_swap' = [cur_swap EXCEPT ![d] = c.cur_swap]
    /\ valid' = [valid EXCEPT ![d] = c.valid]
    /\ queues' = [queues EXCEPT ![d] = c.queue]

\* get_swap_data: the vk_swap_data pointer of handle sc, modelled by the
\* handle itself, or NULL
get_swap_data(c, sc) == IF c.swaps[sc] = NoSwap THEN NULL ELSE sc

\* A test that looks at the device only, not at the queue
Captures_ValidOnly(d) == valid[d]

\* Whether OBS_QueuePresentKHR calls vk_capture
Captures(d) == valid[d] /\ queues[d].supports_transfer

\* OBS_QueuePresentKHR on the queue of device d, presenting swapchain sc
QueuePresent(d, sc, conn, rcv, ini, snd, sub) ==
    /\ ~crashed
    /\ d \in devices
    /\ <<d, sc>> \in appSwaps
    /\ LET c0 == Ctx(d)
           c == IF Captures(d)
                THEN vk_capture(c0, get_swap_data(c0, sc), conn, rcv, ini, snd, sub)
                ELSE c0
       IN  /\ Commit(d, c)
           /\ last' = [NextLast EXCEPT !.op = "QueuePresentKHR", !.dev = d, !.sc = sc,
                                     !.sent = c.sent, !.msg = c.msg,
                                     !.copied = c.copied,
                                     !.waited = c.waited,
                                     !.next_calls = IF c.crashed THEN 0 ELSE 1,
                                     !.tracked = swaps[d][sc] # NoSwap,
                                     !.byte = /\ Captures(d) /\ Polls(c0)
                                              /\ (connfd >= 0 \/ conn = "ok")
                                              /\ rcv = "byte",
                                     !.rcv = IF /\ Captures(d) /\ Polls(c0)
                                                /\ (connfd >= 0 \/ conn = "ok")
                                             THEN rcv ELSE "none",
                                     !.touched = c.touched,
                                     !.nth = IF c.updated THEN last.calls + 1 ELSE 0,
                                     !.calls = IF ~c.updated THEN last.calls
                                               ELSE IF c.touched THEN 0
                                               ELSE last.calls + 1,
                                     !.prev = IF ~c.updated \/ c.touched THEN last.prev
                                              ELSE IF last.calls + 1 = LIMITER - 1 THEN d
                                              ELSE NULL]
    /\ UNCHANGED <<devices, appSwaps, loader, threadVars>>

\* A present whose socket calls meet the results conn, rcv and snd, with no
\* broker step in between
OBS_QueuePresentKHR(d, sc, conn, rcv, ini, snd, sub) ==
    /\ QueuePresent(d, sc, conn, rcv, ini, snd, sub)
    /\ UNCHANGED brokerVars

\* The results a present can meet, drawn from env (a record of sets of
\* results); each input is drawn only where the call reaches the function
\* that consumes it
Present(d, sc, env) ==
    LET c0 == Ctx(d)
        swap == get_swap_data(c0, sc)
        run == d \in devices /\ Captures(d)
    IN  \E conn \in IF run /\ Polls(c0) /\ connfd < 0 THEN env.conn ELSE {"ok"} :
        \E rcv \in IF run /\ Polls(c0) /\ (connfd >= 0 \/ conn = "ok")
                   THEN env.rcv ELSE {"eagain"} :
          LET c1 == CaptureStop(c0, conn, rcv)
              inits == run /\ capture_should_init(c1) /\ swap # NULL
                       /\ valid_rect(c0.swaps[sc])
          IN  \E ini \in IF inits THEN env.ini ELSE {"ok"} :
              \E snd \in IF inits /\ ini = "ok" THEN env.snd ELSE {"ok"} :
                LET c2 == CaptureInit(c1, swap, ini, snd)
                    copies == run /\ ~c2.crashed /\ capture_ready(c2)
                              /\ swap = c2.cur_swap /\ swap # NULL
                IN  \E sub \in IF copies THEN env.sub ELSE {"ok"} :
                      OBS_QueuePresentKHR(d, sc, conn, rcv, ini, snd, sub)

\* Every result
AnyResult ==
    [conn |-> ConnectResults, rcv |-> RecvResults, ini |-> InitResults,
     snd |-> SendResults, sub |-> SubmitResults]

\* Export init and sendmsg always succeed
InitSucceeds == [AnyResult EXCEPT !.ini = {"ok"}, !.snd = {"ok"}]

\* Export init succeeds or fails at its first call
InitOrNoImage == [AnyResult EXCEPT !.ini = {"ok", "CreateImage"}, !.snd = {"ok"}]

\* OBS_CreateDevice.  res: "ok"; "nofuncs" (a device function is missing or
\* the instance is invalid: the state stays registered and invalid, with no
\* queue data); "fail" (the next layer's vkCreateDevice failed)
OBS_CreateDevice(d, transfer, res) ==
    /\ ~crashed
    /\ d \notin devices
    /\ devices' = IF res = "fail" THEN devices ELSE devices \cup {d}
    /\ valid' = [valid EXCEPT ![d] = res = "ok"]
    /\ queues' = [queues EXCEPT ![d] = IF res = "ok" THEN NewQueueData(transfer)
                                                    ELSE NoQueue]
    /\ swaps' = [swaps EXCEPT ![d] = [h \in Handles |-> NoSwap]]
    /\ cur_swap' = [cur_swap EXCEPT ![d] = NULL]
    /\ last' = [NextLast EXCEPT !.op = "CreateDevice", !.dev = d, !.next_calls = 1]
    /\ UNCHANGED <<connfd, capturing, limiter, appSwaps, crashed, hazard>>
    /\ UNCHANGED loader
    /\ UNCHANGED <<brokerVars, threadVars>>

\* A swapchain record that still holds a live export image, memory or fd
HoldsExport(s) ==
    s # NoSwap /\ (s.export_image = "live" \/ s.export_mem = "live" \/ s.dmabuf_fd >= 0)

\* OBS_DestroyDevice; the device's swapchains and the vk_data go with it
OBS_DestroyDevice(d) ==
    /\ ~crashed
    /\ d \in devices
    /\ LET r == IF valid[d] THEN vk_shtex_destroy_frame_objects(queues[d])
                ELSE [q |-> queues[d], hazard |-> FALSE, waited |-> FALSE]
       IN  /\ hazard' = (hazard \/ r.hazard)
           /\ last' = [NextLast EXCEPT
                         !.op = "DestroyDevice", !.dev = d, !.next_calls = 1,
                         !.waited = r.waited,
                         !.lost = \E h \in Handles :
                                     swaps[d][h] # NoSwap
                                     /\ (swaps[d][h].lost \/ HoldsExport(swaps[d][h])),
                         !.twice = \E h \in Handles :
                                     swaps[d][h] # NoSwap /\ swaps[d][h].twice]
    /\ devices' = devices \ {d}
    /\ valid' = [valid EXCEPT ![d] = FALSE]
    /\ queues' = [queues EXCEPT ![d] = NoQueue]
    /\ swaps' = [swaps EXCEPT ![d] = [h \in Handles |-> NoSwap]]
    /\ cur_swap' = [cur_swap EXCEPT ![d] = NULL]
    /\ appSwaps' = {p \in appSwaps : p[1] # d}
    /\ UNCHANGED <<connfd, capturing, limiter, crashed>>
    /\ UNCHANGED loader
    /\ UNCHANGED <<brokerVars, threadVars>>

\* OBS_CreateSwapchainKHR.  res: "ok" (created with TRANSFER_SRC, recorded);
\* "fallback" (created only by the retry with the original flags);
\* "fail" (both calls failed); "noimages" (GetSwapchainImagesKHR failed or
\* returned 0 images); "nomem" (alloc_swap_data returned NULL)
OBS_CreateSwapchainKHR(d, sc, extent, count, res) ==
    /\ ~crashed
    /\ d \in devices
    /\ <<d, sc>> \notin appSwaps
    /\ ~valid[d] => res \in {"ok", "fail"}
    /\ appSwaps' = IF res = "fail" THEN appSwaps ELSE appSwaps \cup {<<d, sc>>}
    /\ swaps' = IF valid[d] /\ res = "ok"
                THEN [swaps EXCEPT ![d][sc] = NewSwapData(extent, count)]
                ELSE swaps
    /\ last' = [NextLast EXCEPT
                  !.op = "CreateSwapchainKHR", !.dev = d, !.sc = sc,
                  !.next_calls = IF valid[d] /\ res \in {"fallback", "fail"} THEN 2 ELSE 1,
                  !.tracked = valid[d] /\ res = "ok"]
    /\ UNCHANGED <<connfd, capturing, limiter, devices, valid, cur_swap, queues,
                   crashed, hazard>>
    /\ UNCHANGED loader
    /\ UNCHANGED <<brokerVars, threadVars>>

\* OBS_DestroySwapchainKHR of an existing swapchain.  On an invalid device
\* the vk_swap_data is not looked up and stays in the list.
OBS_DestroySwapchainKHR(d, sc) ==
    /\ ~crashed
    /\ d \in devices
    /\ <<d, sc>> \in appSwaps
    /\ LET c0 == Ctx(d)
           found == valid[d] /\ get_swap_data(c0, sc) # NULL
           c1 == IF found /\ cur_swap[d] = sc THEN vk_shtex_free(c0) ELSE c0
           gone == c1.swaps[sc]
           c2 == IF found THEN [c1 EXCEPT !.swaps[sc] = NoSwap] ELSE c1
       IN  /\ Commit(d, c2)
           /\ last' = [NextLast EXCEPT
                         !.op = "DestroySwapchainKHR", !.dev = d, !.sc = sc,
                         !.next_calls = 1, !.tracked = gone # NoSwap,
                         !.lost = gone # NoSwap /\ (gone.lost \/ HoldsExport(gone)),
                         !.twice = gone # NoSwap /\ gone.twice]
    /\ appSwaps' = appSwaps \ {<<d, sc>>}
    /\ UNCHANGED devices
    /\ UNCHANGED loader
    /\ UNCHANGED <<brokerVars, threadVars>>

\* The GPU finishes the submission of slot i of device d's queue and signals
\* its fence
GpuComplete(d, i) ==
    /\ ~crashed
    /\ d \in devices
    /\ i \in DOMAIN queues[d].frames
    /\ queues[d].frames[i].fence = "pending"
    /\ queues' = [queues EXCEPT ![d].frames[i].fence = "signaled"]
    /\ UNCHANGED <<connfd, capturing, limiter, devices, valid, cur_swap, swaps,
                   appSwaps, crashed, hazard, last>>
    /\ UNCHANGED loader
    /\ UNCHANGED <<brokerVars, threadVars>>

\* The state after the first OBS_Negotiate (capture_init, init_obj_list)
LayerInit ==
    /\ connfd = -1
    /\ capturing = FALSE
    /\ limiter = 0
    /\ devices = {}
    /\ valid = [d \in Devices |-> FALSE]
    /\ cur_swap = [d \in Devices |-> NULL]
    /\ swaps = [d \in Devices |-> [h \in Handles |-> NoSwap]]
    /\ queues = [d \in Devices |-> NoQueue]
    /\ appSwaps = {}
    /\ crashed = FALSE
    /\ hazard = FALSE
    /\ last = NoLast
    /\ loader = [vulkan_seen |-> TRUE, instances |-> [i \in Instances |-> "none"],
                 app |-> {}]
    /\ inflight = [t \in Threads |-> NoCall]
    /\ mutex = [m \in Mutexes |-> NULL]
    /\ locking = [t \in LockThreads |-> <<>>]

(***************************************************************************)
(* Loader interface and instances                                          *)
(***************************************************************************)
\* CURRENT_LOADER_LAYER_INTERFACE_VERSION of vk_layer.h
CURRENT_LOADER_LAYER_INTERFACE_VERSION == 2

\* The largest interface version a loader asks for
MaxLoaderVersion == 4

\* OBS_Negotiate's clamp of nli->loaderLayerInterfaceVersion
NegotiatedVersion(v) ==
    IF v > CURRENT_LOADER_LAYER_INTERFACE_VERSION
    THEN CURRENT_LOADER_LAYER_INTERFACE_VERSION ELSE v

\* An OBS_Negotiate that initializes on every call
FirstCall_Always(l) == TRUE

\* "if (!vulkan_seen)"
FirstCall(l) == ~l.vulkan_seen

\* OBS_Negotiate with loaderLayerInterfaceVersion = v: the first call
\* empties the lists "instances" and "devices" (init_obj_list sets root to
\* NULL) and runs capture_init
OBS_Negotiate(v) ==
    /\ ~crashed
    /\ last' = [NextLast EXCEPT !.op = "Negotiate", !.arg = v,
                                !.ret = NegotiatedVersion(v)]
    /\ IF FirstCall(loader)
       THEN /\ loader' = [loader EXCEPT !.vulkan_seen = TRUE,
                                         !.instances = [i \in Instances |-> "none"]]
            /\ devices' = {}
            /\ connfd' = -1
            /\ capturing' = FALSE
       ELSE UNCHANGED <<loader, devices, connfd, capturing>>
    /\ UNCHANGED <<limiter, valid, cur_swap, swaps, queues, appSwaps, crashed, hazard>>
    /\ UNCHANGED <<brokerVars, threadVars>>

\* OBS_CreateInstance of instance i.  res: "ok" (created with the api
\* version raised); "fallback" (created only by the retry with the original
\* arguments); "fail" (both calls failed); "nomem" (alloc_inst_data returned
\* NULL); found: every instance function was found
OBS_CreateInstance(i, res, found) ==
    /\ ~crashed
    /\ i \notin loader.app
    /\ loader' = [loader EXCEPT
                    !.app = IF res \in {"ok", "fallback"} THEN @ \cup {i} ELSE @,
                    !.instances[i] = IF res = "ok" /\ found THEN "valid"
                                     ELSE IF res \in {"ok", "fallback"} THEN "invalid"
                                     ELSE @]
    /\ last' = [NextLast EXCEPT
                  !.op = "CreateInstance", !.inst = i,
                  !.next_calls = IF res = "nomem" THEN 0
                                 ELSE IF res = "ok" THEN 1 ELSE 2]
    /\ UNCHANGED <<connfd, capturing, limiter, devices, valid, cur_swap, swaps,
                   queues, appSwaps, crashed, hazard>>
    /\ UNCHANGED <<brokerVars, threadVars>>

\* OBS_DestroyInstance of an instance the application holds
OBS_DestroyInstance(i) ==
    /\ ~crashed
    /\ i \in loader.app
    /\ loader' = [loader EXCEPT !.app = @ \ {i}, !.instances[i] = "none"]
    /\ last' = [NextLast EXCEPT !.op = "DestroyInstance", !.inst = i,
                                !.next_calls = 1]
    /\ UNCHANGED <<connfd, capturing, limiter, devices, valid, cur_swap, swaps,
                   queues, appSwaps, crashed, hazard>>
    /\ UNCHANGED <<brokerVars, threadVars>>

\* OBS_CreateDevice on a physical device of instance i: the device is valid
\* only if its instance is
CreateDeviceOn(i, d) ==
    /\ i \in loader.app
    /\ OBS_CreateDevice(d, TRUE, IF loader.instances[i] = "valid" THEN "ok"
                                 ELSE "nofuncs")

\* The statics of the layer when it is loaded, before any call: zero, with
\* vulkan_seen false
LayerLoaded ==
    /\ connfd = 0
    /\ capturing = FALSE
    /\ limiter = 0
    /\ devices = {}
    /\ valid = [d \in Devices |-> FALSE]
    /\ cur_swap = [d \in Devices |-> NULL]
    /\ swaps = [d \in Devices |-> [h \in Handles |-> NoSwap]]
    /\ queues = [d \in Devices |-> NoQueue]
    /\ appSwaps = {}
    /\ crashed = FALSE
    /\ hazard = FALSE
    /\ last = NoLast
    /\ loader = [vulkan_seen |-> FALSE, instances |-> [i \in Instances |-> "none"],
                 app |-> {}]
    /\ inflight = [t \in Threads |-> NoCall]
    /\ mutex = [m \in Mutexes |-> NULL]
    /\ locking = [t \in LockThreads |-> <<>>]

(***************************************************************************)
(* Specifications of the layer.  The broker is another process: in these   *)
(* specifications it rests in its start state.                             *)
(***************************************************************************)
\* Layer and broker freshly loaded, the two message sizes being equal
Init == LayerInit /\ BrokerStart(TRUE)

\* The frame ring: one device, swapchain s1 with one image and s2 with two,
\* export init succeeding or marking the device invalid, the GPU completing
\* submissions on its own
RingNext ==
    \/ OBS_CreateDevice("d1", TRUE, "ok")
    \/ OBS_DestroyDevice("d1")
    \/ OBS_CreateSwapchainKHR("d1", "s1", ValidExtent, 1, "ok")
    \/ OBS_CreateSwapchainKHR("d1", "s2", ValidExtent, 2, "ok")
    \/ \E sc \in Handles : OBS_DestroySwapchainKHR("d1", sc)
    \/ \E sc \in Handles : Present("d1", sc, InitOrNoImage)
    \/ \E i \in {1, 2} : GpuComplete("d1", i)

RingSpec == Init /\ [][RingNext]_vars

\* Round robin: one device and its swapchain s1 of three images, which may
\* be destroyed and created again; the broker may close the socket and
\* QueueSubmit may fail
RoundNext ==
    \/ OBS_CreateDevice("d1", TRUE, "ok")
    \/ OBS_CreateSwapchainKHR("d1", "s1", ValidExtent, 3, "ok")
    \/ OBS_DestroySwapchainKHR("d1", "s1")
    \/ Present("d1", "s1", [InitSucceeds EXCEPT !.rcv = {"eagain", "eof"}])
    \/ \E i \in {1, 2, 3} : GpuComplete("d1", i)

RoundSpec == Init /\ [][RoundNext]_vars

\* Export init: one device, one image per swapchain, every result of
\* swapchain creation, of export init and of sendmsg
ExportNext ==
    \/ OBS_CreateDevice("d1", TRUE, "ok")
    \/ OBS_DestroyDevice("d1")
    \/ \E sc \in Handles, res \in {"ok", "fallback", "fail", "noimages", "nomem"} :
            OBS_CreateSwapchainKHR("d1", sc, ValidExtent, 1, res)
    \/ \E sc \in Handles : OBS_DestroySwapchainKHR("d1", sc)
    \/ \E sc \in Handles : Present("d1", sc, AnyResult)

ExportSpec == Init /\ [][ExportNext]_vars

\* Two devices with one swapchain each
TwoDevNext ==
    \/ \E d \in Devices : OBS_CreateDevice(d, TRUE, "ok")
    \/ \E d \in Devices : OBS_DestroyDevice(d)
    \/ \E d \in Devices : OBS_CreateSwapchainKHR(d, "s1", ValidExtent, 1, "ok")
    \/ \E d \in Devices : OBS_DestroySwapchainKHR(d, "s1")
    \/ \E d \in Devices : Present(d, "s1", InitSucceeds)

TwoDevSpec == Init /\ [][TwoDevNext]_vars

\* Pass-through: device d1 captures (its export init may fail, which marks
\* it invalid); device d2 has a queue of a family without graphics, compute
\* and transfer bits, or lacks a device function and stays invalid
PassNext ==
    \/ OBS_CreateDevice("d1", TRUE, "ok")
    \/ OBS_CreateDevice("d2", FALSE, "ok")
    \/ OBS_CreateDevice("d2", TRUE, "nofuncs")
    \/ \E d \in Devices : OBS_DestroyDevice(d)
    \/ \E d \in Devices : OBS_CreateSwapchainKHR(d, "s1", ValidExtent, 1, "ok")
    \/ \E d \in Devices : OBS_DestroySwapchainKHR(d, "s1")
    \/ \E d \in Devices : Present(d, "s1", InitOrNoImage)

PassSpec == Init /\ [][PassNext]_vars

(***************************************************************************)
(* Presents on two threads.  capture_data, the static limiter and cur_swap *)
(* are read and written without a lock, so a call of vk_capture is cut     *)
(* into steps at its accesses to them and the steps of two calls           *)
(* interleave.  recv finds nothing to read and every Vulkan call succeeds. *)
(***************************************************************************)
\* OBS_QueuePresentKHR on thread t, for a queue of device d, finds the
\* device valid and the queue transfer-capable and enters vk_capture, which
\* looks up the swapchain
EnterCapture(t, d, sc) ==
    /\ ~crashed
    /\ inflight[t].pc = "idle"
    /\ d \in devices
    /\ <<d, sc>> \in appSwaps
    /\ Captures(d)
    /\ swaps[d][sc] # NoSwap
    /\ inflight' = [inflight EXCEPT ![t] = [NoCall EXCEPT !.pc = "load",
                                                         !.dev = d, !.sc = sc]]
    /\ UNCHANGED <<layerVars, brokerVars>>
    /\ UNCHANGED <<mutex, locking>>

\* "++limiter": the load
LoadLimiter(t) ==
    /\ inflight[t].pc = "load"
    /\ inflight' = [inflight EXCEPT ![t].pc = "store", ![t].l = limiter]
    /\ UNCHANGED <<layerVars, brokerVars>>
    /\ UNCHANGED <<mutex, locking>>

\* "++limiter": the store of the value loaded plus one, the test against 60
\* and "limiter = 0"; the loaded value is not used again
StoreLimiter(t) ==
    /\ inflight[t].pc = "store"
    /\ limiter' = IF inflight[t].l + 1 < LIMITER THEN inflight[t].l + 1 ELSE 0
    /\ inflight' = [inflight EXCEPT
                      ![t].pc = IF inflight[t].l + 1 < LIMITER THEN "flags" ELSE "socket",
                      ![t].l = 0]
    /\ UNCHANGED <<connfd, capturing, devices, valid, cur_swap, swaps, queues,
                   appSwaps, crashed, hazard, last, loader>>
    /\ UNCHANGED brokerVars
    /\ UNCHANGED <<mutex, locking>>

\* The rest of capture_update_socket: capture_try_connect when connfd < 0,
\* then recv, which reports EAGAIN
TrySocket(t, conn) ==
    /\ inflight[t].pc = "socket"
    /\ connfd' = IF connfd < 0
                 THEN capture_try_connect(Ctx(inflight[t].dev), conn).connfd
                 ELSE connfd
    /\ inflight' = [inflight EXCEPT ![t].pc = "flags", ![t].tried = connfd < 0]
    /\ UNCHANGED <<capturing, limiter, devices, valid, cur_swap, swaps, queues,
                   appSwaps, crashed, hazard, last, loader>>
    /\ UNCHANGED brokerVars
    /\ UNCHANGED <<mutex, locking>>

\* capture_should_stop with its vk_shtex_free, and the read of the flags in
\* capture_should_init
TestFlags(t) ==
    /\ inflight[t].pc = "flags"
    /\ LET c0 == Ctx(inflight[t].dev)
           c1 == IF capture_should_stop(c0) THEN vk_shtex_free(c0) ELSE c0
       IN  /\ Commit(inflight[t].dev, c1)
           /\ inflight' = [inflight EXCEPT
                             ![t].pc = IF capture_should_init(c1) THEN "init"
                                       ELSE "ready"]
    /\ UNCHANGED <<devices, appSwaps, last, loader>>
    /\ UNCHANGED brokerVars
    /\ UNCHANGED <<mutex, locking>>

\* vk_shtex_init after capture_should_init was found true: the export image
\* is created, cur_swap set, the TextureInfo sent and capturing set
ExportInit(t) ==
    /\ inflight[t].pc = "init"
    /\ Commit(inflight[t].dev,
              vk_shtex_init(Ctx(inflight[t].dev), inflight[t].sc, "ok", "ok").c)
    /\ inflight' = [inflight EXCEPT ![t].pc = "ready", ![t].inited = TRUE]
    /\ UNCHANGED <<devices, appSwaps, last, loader>>
    /\ UNCHANGED brokerVars
    /\ UNCHANGED <<mutex, locking>>

\* The capture_ready part of vk_capture; OBS_QueuePresentKHR returns
CopyAndReturn(t) ==
    /\ inflight[t].pc = "ready"
    /\ Commit(inflight[t].dev,
              CaptureCopy(Ctx(inflight[t].dev), inflight[t].sc, "ok"))
    /\ inflight' = [inflight EXCEPT ![t] = NoCall]
    /\ UNCHANGED <<devices, appSwaps, last, loader>>
    /\ UNCHANGED brokerVars
    /\ UNCHANGED <<mutex, locking>>

\* Two devices with one swapchain each; thread t1 presents on d1, t2 on d2
RaceNext ==
    \/ \E d \in Devices : OBS_CreateDevice(d, TRUE, "ok")
    \/ \E d \in Devices : OBS_CreateSwapchainKHR(d, "s1", ValidExtent, 1, "ok")
    \/ EnterCapture("t1", "d1", "s1")
    \/ EnterCapture("t2", "d2", "s1")
    \/ \E t \in Threads : LoadLimiter(t)
    \/ \E t \in Threads : StoreLimiter(t)
    \/ \E t \in Threads, conn \in ConnectResults : TrySocket(t, conn)
    \/ \E t \in Threads : TestFlags(t)
    \/ \E t \in Threads : ExportInit(t)
    \/ \E t \in Threads : CopyAndReturn(t)

RaceSpec == Init /\ [][RaceNext]_vars

(***************************************************************************)
(* Locking.  Every entry point is taken as the sequence of                 *)
(* pthread_mutex_lock and pthread_mutex_unlock calls it makes, whatever    *)
(* the data it works on; the calls of the threads interleave.              *)
(***************************************************************************)
\* add_obj_data, get_obj_data, remove_obj_data or a walk from obj_walk_begin
\* to obj_walk_end on the list with mutex m; also a section of the broker
\* between pthread_mutex_lock and pthread_mutex_unlock of server.mutex
Section(m) == <<[op |-> "lock", m |-> m], [op |-> "unlock", m |-> m]>>

\* A vk_shtex_free that waits for the queues inside the walk of the swaps
vk_shtex_free_locks_Nested(d) ==
    <<[op |-> "lock", m |-> <<"swaps", d>>]>> \o Section(<<"queues", d>>)
        \o <<[op |-> "unlock", m |-> <<"swaps", d>>]>>

\* vk_shtex_free: the queue walk of vk_shtex_wait_until_idle, then the walk
\* of the swaps
vk_shtex_free_locks(d) == Section(<<"queues", d>>) \o Section(<<"swaps", d>>)

\* vk_capture after get_swap_data: the free of capture_should_stop or none;
\* then vk_shtex_init (get_inst_funcs_by_physical_device) with or without
\* the free of its failure, or none; then the free of the mismatch, the
\* get_queue_data of vk_shtex_capture, or none
vk_capture_locks(d) ==
    {stop \o init \o ready :
        stop \in {<<>>, vk_shtex_free_locks(d)},
        init \in {<<>>, Section(<<"instances", NULL>>),
                  Section(<<"instances", NULL>>) \o vk_shtex_free_locks(d)},
        ready \in {<<>>, vk_shtex_free_locks(d), Section(<<"queues", d>>)}}

\* The entry points of the layer on device d: CreateInstance or
\* DestroyInstance or GetInstanceProcAddr, GetDeviceProcAddr, CreateDevice,
\* DestroyDevice (invalid or valid device), CreateSwapchainKHR,
\* DestroySwapchainKHR (of cur_swap or not), QueuePresentKHR (without and
\* with vk_capture)
LayerCalls(d) ==
    {Section(<<"instances", NULL>>),
     Section(<<"devices", NULL>>),
     Section(<<"instances", NULL>>) \o Section(<<"devices", NULL>>)
        \o Section(<<"queues", d>>),
     Section(<<"devices", NULL>>) \o Section(<<"queues", d>>)
        \o Section(<<"queues", d>>),
     Section(<<"devices", NULL>>) \o Section(<<"swaps", d>>),
     Section(<<"devices", NULL>>) \o Section(<<"swaps", d>>)
        \o Section(<<"swaps", d>>),
     Section(<<"devices", NULL>>) \o Section(<<"swaps", d>>)
        \o vk_shtex_free_locks(d) \o Section(<<"swaps", d>>),
     Section(<<"devices", NULL>>) \o Section(<<"queues", d>>)}
    \cup {Section(<<"devices", NULL>>) \o Section(<<"queues", d>>)
              \o Section(<<"swaps", d>>) \o c : c \in vk_capture_locks(d)}

\* One round of server_thread_run for one fd: accept, a stored ClientInfo
\* or a server_cleanup_client (end of stream, ClientInfo of the wrong size),
\* each one section; a TextureInfo, which is copied in one section and then
\* installed in a second one or followed by server_cleanup_client, which
\* locks server.mutex itself
ServerCalls ==
    {Section(<<"server", NULL>>),
     Section(<<"server", NULL>>) \o Section(<<"server", NULL>>)}

\* The calls thread t can make; vkcapture_source_video_tick is one section
\* from its lock to its unlock
CallsOf(t) ==
    IF t \in Threads THEN UNION {LayerCalls(d) : d \in Devices}
    ELSE IF t = "server_thread_run" THEN ServerCalls
    ELSE {Section(<<"server", NULL>>)}

\* Thread t enters an entry point
Call(t) ==
    /\ locking[t] = <<>>
    /\ \E c \in CallsOf(t) : locking' = [locking EXCEPT ![t] = c]
    /\ UNCHANGED <<layerVars, brokerVars, inflight, mutex>>

\* pthread_mutex_lock returns once no thread holds the mutex
pthread_mutex_lock(t) ==
    /\ locking[t] # <<>>
    /\ Head(locking[t]).op = "lock"
    /\ mutex[Head(locking[t]).m] = NULL
    /\ mutex' = [mutex EXCEPT ![Head(locking[t]).m] = t]
    /\ locking' = [locking EXCEPT ![t] = Tail(@)]
    /\ UNCHANGED <<layerVars, brokerVars, inflight>>

pthread_mutex_unlock(t) ==
    /\ locking[t] # <<>>
    /\ Head(locking[t]).op = "unlock"
    /\ mutex' = [mutex EXCEPT ![Head(locking[t]).m] = NULL]
    /\ locking' = [locking EXCEPT ![t] = Tail(@)]
    /\ UNCHANGED <<layerVars, brokerVars, inflight>>

LockNext ==
    \/ \E t \in LockThreads : Call(t)
    \/ \E t \in LockThreads : pthread_mutex_lock(t)
    \/ \E t \in LockThreads : pthread_mutex_unlock(t)

LockSpec == Init /\ [][LockNext]_vars

\* The socket connects or not, stays quiet or reports EOF; export init,
\* sendmsg and QueueSubmit succeed
QuietOrEof == [InitSucceeds EXCEPT !.rcv = {"eagain", "eof"}, !.sub = {"ok"}]

\* Extents: one device; swapchain s1 is created with an extent whose width or
\* height is 0, or with a valid one, s2 with the extent before or after a
\* resize
ExtentNext ==
    \/ OBS_CreateDevice("d1", TRUE, "ok")
    \/ \E e \in {ValidExtent, ZeroExtent, ZeroWidth, ZeroHeight} :
            OBS_CreateSwapchainKHR("d1", "s1", e, 1, "ok")
    \/ \E e \in {ValidExtent, SmallExtent} :
            OBS_CreateSwapchainKHR("d1", "s2", e, 1, "ok")
    \/ \E sc \in Handles : OBS_DestroySwapchainKHR("d1", sc)
    \/ \E sc \in Handles : Present("d1", sc, QuietOrEof)

ExtentSpec == Init /\ [][ExtentNext]_vars

\* The layer as the loader finds it, the broker listening
LoaderInit == LayerLoaded /\ BrokerStart(TRUE)

\* The socket up or down, export init and sendmsg succeeding
ConnectOrNot == [InitSucceeds EXCEPT !.rcv = {"eagain"}, !.sub = {"ok"}]

\* The loader negotiates, then the application creates instances, one
\* device and swapchains, with and without the retry, and presents
LoaderNext ==
    \/ \E v \in 0 .. MaxLoaderVersion : OBS_Negotiate(v)
    \/ loader.vulkan_seen /\
          \E i \in Instances, res \in {"ok", "fallback", "fail", "nomem"}, found \in BOOLEAN :
              OBS_CreateInstance(i, res, found)
    \/ loader.vulkan_seen /\ \E i \in Instances : OBS_DestroyInstance(i)
    \/ loader.vulkan_seen /\ \E i \in Instances : CreateDeviceOn(i, "d1")
    \/ loader.vulkan_seen /\ OBS_DestroyDevice("d1")
    \/ loader.vulkan_seen /\
          \E res \in {"ok", "fallback", "fail"} :
              OBS_CreateSwapchainKHR("d1", "s1", ValidExtent, 1, res)
    \/ loader.vulkan_seen /\ OBS_DestroySwapchainKHR("d1", "s1")
    \/ loader.vulkan_seen /\ Present("d1", "s1", ConnectOrNot)

LoaderSpec == LoaderInit /\ [][LoaderNext]_vars

(***************************************************************************)
(* Properties of the layer                                                 *)
(***************************************************************************)
Tracked(d) == {h \in Handles : swaps[d][h] # NoSwap}

\* The export of a swapchain record is live
ExportLive(s) == s.export_image = "live" /\ s.dmabuf_fd >= 0

\* C1: over its lifetime a swapchain record exports at most one DMA-BUF fd;
\* after a present on a device that finds the connection lost, every
\* swapchain of the device has dmabuf_fd = -1 and captured = FALSE; and a
\* destroyed swapchain leaves no export resource behind.
C1_OneFdPerGeneration ==
    /\ \A d \in Devices : \A h \in Tracked(d) : swaps[d][h].exports <= 1
    /\ (last.op = "QueuePresentKHR" /\ connfd < 0) =>
          \A h \in Tracked(last.dev) :
              swaps[last.dev][h].dmabuf_fd = -1 /\ ~swaps[last.dev][h].captured
    /\ (last.op = "DestroySwapchainKHR" /\ last.tracked) => ~last.lost

\* C2: after DestroySwapchainKHR of a tracked swapchain, every export image,
\* memory and fd created for it has been released exactly once: none was
\* overwritten or left live, none was destroyed twice.
C2_ReleasedExactlyOnce ==
    (last.op = "DestroySwapchainKHR" /\ last.tracked) => ~last.lost /\ ~last.twice

\* C3: between entry-point calls, for every device, cur_swap is non-NULL iff
\* capturing is true and the swapchain's export is live.
C3_CurSwapIffCapturing ==
    \A d \in devices :
        /\ cur_swap[d] # NULL =>
              capturing /\ cur_swap[d] \in Tracked(d) /\ ExportLive(swaps[d][cur_swap[d]])
        /\ (capturing /\ \E h \in Tracked(d) : ExportLive(swaps[d][h])) =>
              cur_swap[d] # NULL

\* C4: the layer never resets, re-records, resubmits or destroys a frame
\* slot whose submission it has not waited for.
C4_BusySlotWaited == ~hazard

\* C4 witness: a present waited for the fence of a busy slot and submitted
\* the copy on it again.
C4_Witness ==
    /\ last.op = "QueuePresentKHR"
    /\ last.waited
    /\ last.copied
    /\ \E i \in DOMAIN queues[last.dev].frames :
          queues[last.dev].frames[i].cmd_buffer_busy

\* C5: after a present whose sendmsg failed, capturing and captured are
\* false, the export is released and no copy was submitted.
C5_SendFailureTearsDown ==
    (last.op = "QueuePresentKHR" /\ last.sent = "fail") =>
        /\ ~capturing
        /\ ~last.copied
        /\ \A h \in Tracked(last.dev) :
              ~swaps[last.dev][h].captured /\ ~HoldsExport(swaps[last.dev][h])

\* C6: every present reaches the next layer's QueuePresentKHR exactly once
\* and the process never dereferences a missing swapchain record.
C6_PresentPassesThrough ==
    /\ ~crashed
    /\ last.op = "QueuePresentKHR" => last.next_calls = 1

(***************************************************************************)
(* The broker: server_thread_run, server_cleanup_client and the source's   *)
(* video tick.  Every section the code runs with server.mutex held is one  *)
(* atomic step; the server thread's steps are cut where it releases the    *)
(* mutex, so a video tick can run between any two of them.  The operators  *)
(* work on w, the part of the state the server thread writes.              *)
(***************************************************************************)
World ==
    [conns |-> conns, server |-> server, thr |-> thr, rfd |-> rfd,
     cleaned |-> cleaned, lastRecv |-> lastRecv]

\* Mutant of NextId: the counter is not incremented
NextId_Stuck(n) == n

\* "++bufid", "++clientid"
NextId(n) == n + 1

\* CMSG_ALIGN, CMSG_SPACE with a 16-byte struct cmsghdr and 8-byte alignment
CMSG_ALIGN(n) == ((n + 7) \div 8) * 8

CMSG_SPACE(n) == 16 + CMSG_ALIGN(n)

\* "char cmsg_buf[CMSG_SPACE(sizeof(int)) * 4]; msg.msg_controllen =
\* sizeof(cmsg_buf)"
CmsgBufSize == CMSG_SPACE(4) * 4

\* The fds recvmsg delivers of the sent ones: those one SCM_RIGHTS control
\* message of msg_controllen bytes has room for
FdsDelivered(sent, controllen) ==
    IF controllen < 16 THEN 0 ELSE Min(sent, (controllen - 16) \div 4)

\* msg.msg_controllen as recvmsg leaves it after delivering got fds
ControlLenAfter(got, controllen) ==
    IF got = 0 THEN 0 ELSE Min(CMSG_SPACE(4 * got), controllen)

\* close() of the received fds in the set S
CloseFds(r, S) ==
    [f \in DOMAIN r |->
        IF f \in S
        THEN [r[f] EXCEPT !.st = IF @ = "open" THEN "closed" ELSE "twice"]
        ELSE r[f]]

\* history: the received fds in the set S have been stored in a buf_fds array
Installed(r, S) ==
    [f \in DOMAIN r |-> IF f \in S THEN [r[f] EXCEPT !.buf = TRUE] ELSE r[f]]

\* the valid entries of a buf_fds array
ValidFds(a) == {a[j] : j \in {n \in DOMAIN a : a[n] >= 0}}

\* da_erase: the sequence without its element at index i
Erase(seq, i) == [j \in 1 .. (Len(seq) - 1) |-> IF j < i THEN seq[j] ELSE seq[j + 1]]

\* the first index of the poll set with the fd, 0 when there is none
FdIndex(fds, fd) ==
    IF \E j \in DOMAIN fds : fds[j].fd = fd
    THEN CHOOSE j \in DOMAIN fds : fds[j].fd = fd /\ \A n \in 1 .. (j - 1) : fds[n].fd # fd
    ELSE 0

server_add_fd(fds, fd, revents) == Append(fds, [fd |-> fd, revents |-> revents])

server_remove_fd(fds, fd) ==
    IF FdIndex(fds, fd) = 0 THEN fds ELSE Erase(fds, FdIndex(fds, fd))

server_has_event_on_fd(fds, fd) ==
    \E j \in DOMAIN fds : fds[j].fd = fd /\ fds[j].revents

\* A cleanup that forgets the record without closing its buffer fds
server_cleanup_client_KeepFds(w, i) ==
    LET client == w.server.clients[i]
        k == client.sockfd - LISTENFD
    IN  [w EXCEPT
            !.conns[k].sock = IF @ = "open" THEN "closed" ELSE "twice",
            !.server.fds = server_remove_fd(@, client.sockfd),
            !.server.clients = Erase(@, i),
            !.cleaned = @ \cup {[id |-> client.id, sockfd |-> client.sockfd]}]

\* server_cleanup_client of the client at index i of server.clients
server_cleanup_client(w, i) ==
    LET client == w.server.clients[i]
        k == client.sockfd - LISTENFD
    IN  [w EXCEPT
            !.conns[k].sock = IF @ = "open" THEN "closed" ELSE "twice",
            !.server.fds = server_remove_fd(@, client.sockfd),
            !.rfd = CloseFds(@, ValidFds(client.buf_fds)),
            !.server.clients = Erase(@, i),
            !.cleaned = @ \cup {[id |-> client.id, sockfd |-> client.sockfd]}]

\* "break" out of the recvmsg loop: the for loop goes on with i + 1
NextClient(w) ==
    [w EXCEPT !.thr.pc = "scan", !.thr.i = @ + 1, !.thr.controllen = 0,
              !.thr.buf_fds = <<>>]

\* what poll() reports for an fd
Readable(fd) ==
    IF fd = LISTENFD
    THEN \E k \in Conns : conns[k].state = "pending"
    ELSE LET k == fd - LISTENFD
         IN  conns[k].queue # <<>> \/ conns[k].peer_closed

Poll(fds) == [j \in DOMAIN fds |-> [fds[j] EXCEPT !.revents = Readable(fds[j].fd)]]

CommitWorld(w) ==
    /\ conns' = w.conns
    /\ server' = w.server
    /\ thr' = w.thr
    /\ rfd' = w.rfd
    /\ cleaned' = w.cleaned
    /\ lastRecv' = w.lastRecv

\* A producer connects to the socket: the connection waits in the backlog
Connect(k) ==
    /\ thr.pc # "done"
    /\ conns[k].state = "none"
    /\ \A j \in 1 .. (k - 1) : conns[j].state # "none"
    /\ conns' = [conns EXCEPT ![k].state = "pending"]
    /\ UNCHANGED <<server, thr, rfd, ctx, sameSize, stamp, cleaned, lastTick,
                   lastRecv>>
    /\ UNCHANGED <<layerVars, threadVars>>

\* A producer sends the message m on its connection; the broker reads each
\* message with one recvmsg
Send(k, m) ==
    /\ stamp < MaxSends
    /\ conns[k].state \in {"pending", "accepted"}
    /\ ~conns[k].peer_closed
    /\ conns[k].sock \in {"none", "open"}
    /\ conns' = [conns EXCEPT ![k].queue =
                    Append(@, [type |-> m.type, nfd |-> m.nfd, fds |-> m.fds,
                               ver |-> stamp + 1])]
    /\ stamp' = stamp + 1
    /\ UNCHANGED <<server, thr, rfd, ctx, sameSize, cleaned, lastTick,
                   lastRecv>>
    /\ UNCHANGED <<layerVars, threadVars>>

\* A producer closes its end of the connection (or exits)
Close(k) ==
    /\ conns[k].state \in {"pending", "accepted"}
    /\ ~conns[k].peer_closed
    /\ conns' = [conns EXCEPT ![k].peer_closed = TRUE]
    /\ UNCHANGED <<server, thr, rfd, ctx, sameSize, stamp, cleaned, lastTick,
                   lastRecv>>
    /\ UNCHANGED <<layerVars, threadVars>>

\* server_thread_run, the top of the loop: poll() returns with events, and
\* when the listening socket has one, accept4 and the push of the new
\* client.  server_add_fd leaves revents of the new entry uninitialized:
\* garbage is what the for loop of this round reads there.
SrvPoll ==
    /\ thr.pc = "poll"
    /\ ~server.quit
    /\ LET polled == Poll(server.fds)
       IN  /\ \E j \in DOMAIN polled : polled[j].revents
           /\ IF server_has_event_on_fd(polled, LISTENFD)
              THEN \E k \in Conns, garbage \in BOOLEAN :
                      /\ conns[k].state = "pending"
                      /\ \A j \in 1 .. (k - 1) : conns[j].state # "pending"
                      /\ conns' = [conns EXCEPT ![k].state = "accepted",
                                                ![k].sock = "open"]
                      /\ server' = [server EXCEPT
                                      !.clients = Append(@, NewClient(NextId(thr.clientid),
                                                                      SockFd(k))),
                                      !.fds = server_add_fd(polled, SockFd(k), garbage)]
                      /\ thr' = [thr EXCEPT !.pc = "scan", !.i = 1,
                                            !.clientid = NextId(@)]
              ELSE /\ server' = [server EXCEPT !.fds = polled]
                   /\ thr' = [thr EXCEPT !.pc = "scan", !.i = 1]
                   /\ UNCHANGED conns
    /\ UNCHANGED <<rfd, ctx, sameSize, stamp, cleaned, lastTick,
                   lastRecv>>
    /\ UNCHANGED <<layerVars, threadVars>>

\* The for loop over server.clients: its end, a client without an event, or
\* a client with one, for which msg is set up with the whole cmsg_buf
SrvScan ==
    /\ thr.pc = "scan"
    /\ thr' = IF thr.i > Len(server.clients)
              THEN [thr EXCEPT !.pc = "poll", !.i = 0]
              ELSE IF ~server_has_event_on_fd(server.fds, server.clients[thr.i].sockfd)
              THEN [thr EXCEPT !.i = @ + 1]
              ELSE [thr EXCEPT !.pc = "recv", !.controllen = CmsgBufSize]
    /\ UNCHANGED <<conns, server, rfd, ctx, sameSize, stamp, cleaned, lastTick,
                   lastRecv>>
    /\ UNCHANGED <<layerVars, threadVars>>

\* A client branch that also counts the message as a new buffer
StoreClientData_NewBuffer(client, m) ==
    [client EXCEPT !.cdata = m.ver, !.buf_id = @ + 1]

\* "memcpy(&client->cdata, buf, CAPTURE_CLIENT_DATA_SIZE)"
StoreClientData(client, m) ==
    [client EXCEPT !.cdata = m.ver]

\* recvmsg returned the message m for the client at index i: the kernel has
\* installed the fds that fit in the control buffer; then the branch on
\* buf[0].  io.iov_len stays CAPTURE_TEXTURE_DATA_SIZE, so the size test of
\* the client branch compares the two sizes of the build and the one of the
\* texture branch never fails.  The texture branch runs up to the unlock
\* after the memcpy into client->tdata.
Received(w, i, m) ==
    LET client == w.server.clients[i]
        k == client.sockfd - LISTENFD
        got == FdsDelivered(m.fds, w.thr.controllen)
        base == Len(w.rfd)
        w1 == [w EXCEPT
                 !.conns[k].queue = Tail(@),
                 !.rfd = @ \o [j \in 1 .. got |-> [owner |-> client.id, st |-> "open",
                                                       buf |-> FALSE]],
                 !.thr.controllen = ControlLenAfter(got, @),
                 !.lastRecv = [op |-> m.type, id |-> client.id, ver |-> m.ver,
                               fds |-> {base + j : j \in 1 .. got}]]
    IN  CASE m.type = "client" ->
               NextClient(IF sameSize
                          THEN [w1 EXCEPT !.server.clients[i] = StoreClientData(@, m)]
                          ELSE server_cleanup_client(w1, i))
          [] m.type = "texture" ->
               [w1 EXCEPT !.server.clients[i].tdata = [ver |-> m.ver, nfd |-> m.nfd],
                          !.thr.pc = "tex",
                          !.thr.buf_fds = [j \in 1 .. got |-> base + j]]
          [] OTHER -> w1

\* One round of the recvmsg loop: EAGAIN, end of stream or a reset
\* connection, or a message
SrvRecv ==
    /\ thr.pc = "recv"
    /\ LET k == server.clients[thr.i].sockfd - LISTENFD
       IN  CommitWorld(
               IF conns[k].queue # <<>>
               THEN Received(World, thr.i, Head(conns[k].queue))
               ELSE IF conns[k].peer_closed
               THEN NextClient(server_cleanup_client(
                        [World EXCEPT !.lastRecv = [NoRecv EXCEPT !.op = "eof",
                                                       !.id = server.clients[thr.i].id]],
                        thr.i))
               ELSE NextClient(
                        [World EXCEPT !.lastRecv = [NoRecv EXCEPT !.op = "eagain",
                                                       !.id = server.clients[thr.i].id]]))
    /\ UNCHANGED <<ctx, sameSize, stamp, lastTick>>
    /\ UNCHANGED <<layerVars, threadVars>>

\* The texture branch after the unlock: the control message is looked at,
\* then the message is rejected or the fds are installed under the mutex.
\* With more than four fds in the control message the loop that fills the
\* local buf_fds[4] writes past its end: the process dies (ub = "crash") or
\* goes on with the stack it has overwritten, here as if the array had held
\* all of them (ub = "continue").
SrvTex ==
    /\ thr.pc = "tex"
    /\ LET i == thr.i
           client == server.clients[i]
           nfd == Len(thr.buf_fds)
       IN  \E ub \in IF nfd > Len(NoFds) THEN {"crash", "continue"} ELSE {"continue"} :
           CommitWorld(
               IF ub = "crash"
               THEN [World EXCEPT !.thr.pc = "crashed", !.lastRecv.op = "overflow"]
               ELSE IF nfd = 0
               THEN NextClient(server_cleanup_client(
                        [World EXCEPT !.lastRecv.op = "nocmsg"], i))
               ELSE IF client.tdata.nfd # nfd
               THEN NextClient(server_cleanup_client(
                        [World EXCEPT !.rfd = CloseFds(@, ValidFds(thr.buf_fds)),
                                      !.lastRecv.op = "mismatch"], i))
               ELSE [World EXCEPT
                       !.lastRecv.op = "installed",
                       !.rfd = Installed(CloseFds(@, ValidFds(client.buf_fds)),
                                         ValidFds(thr.buf_fds)),
                       !.server.clients[i].buf_fds =
                           [j \in 1 .. Len(NoFds) |->
                               IF j <= nfd THEN thr.buf_fds[j] ELSE -1],
                       !.server.clients[i].buf_id = NextId(thr.bufid),
                       !.server.clients[i].fdver = client.tdata.ver,
                       !.thr.bufid = NextId(@),
                       !.thr.pc = "recv",
                       !.thr.buf_fds = <<>>])
    /\ UNCHANGED <<ctx, sameSize, stamp, lastTick>>
    /\ UNCHANGED <<layerVars, threadVars>>

RECURSIVE CleanupAll(_)
\* "while (server.clients.num) server_cleanup_client(server.clients.array);"
CleanupAll(w) ==
    IF w.server.clients = <<>> THEN w ELSE CleanupAll(server_cleanup_client(w, 1))

\* server_thread_run leaves its loop: every client is cleaned up, the
\* listening socket closed and the socket file unlinked
SrvQuit ==
    /\ thr.pc = "poll"
    /\ server.quit
    /\ CommitWorld([CleanupAll(World) EXCEPT !.thr.pc = "done",
                                            !.thr.sockfd = "closed",
                                            !.thr.bound = FALSE,
                                            !.server.fds = <<>>])
    /\ UNCHANGED <<ctx, sameSize, stamp, lastTick>>
    /\ UNCHANGED <<layerVars, threadVars>>

\* obs_module_unload sets server.quit
obs_module_unload ==
    /\ thr.pc # "crashed"
    /\ ~server.quit
    /\ server' = [server EXCEPT !.quit = TRUE]
    /\ UNCHANGED <<conns, thr, rfd, ctx, sameSize, stamp, cleaned, lastTick,
                   lastRecv>>
    /\ UNCHANGED <<layerVars, threadVars>>

\* A source that keeps its texture when its client is gone
LoseClient_KeepTexture(c) ==
    [c EXCEPT !.buf_id = 0, !.client_id = 0, !.tdata = ZeroTdata]

\* vkcapture_source_video_tick, "if (!client)": the source forgets the client
\* and destroys its texture
LoseClient(c) ==
    [c EXCEPT !.buf_id = 0, !.client_id = 0, !.tdata = ZeroTdata,
              !.texture = FALSE, !.fdver = 0]

\* A selection that follows the newest registered client on every tick
SelectClient_Last(c, clients) ==
    IF clients # <<>> THEN [c EXCEPT !.client_id = clients[Len(clients)].id] ELSE c

\* vkcapture_source_video_tick, the selection at the end of the section under
\* server.mutex: a source without a client takes the first registered one.
\* The assignment does not depend on the result of the write.
SelectClient(c, clients) ==
    IF c.client_id = 0 /\ clients # <<>>
    THEN [c EXCEPT !.client_id = clients[1].id]
    ELSE c

\* A tick that takes the client's buf_id only when the import gave a texture
TickSource_RetryFailedImport(c, clients, imp) ==
    LET found == \E j \in DOMAIN clients : clients[j].id = c.client_id
        client == clients[CHOOSE j \in DOMAIN clients : clients[j].id = c.client_id]
    IN  SelectClient(
            IF c.client_id = 0 THEN c
            ELSE IF ~found THEN LoseClient(c)
            ELSE IF c.buf_id # client.buf_id
            THEN [c EXCEPT !.tdata = client.tdata, !.texture = imp,
                           !.buf_id = IF imp THEN client.buf_id ELSE @,
                           !.fdver = client.fdver]
            ELSE c,
            clients)

\* vkcapture_source_video_tick, what the section under server.mutex leaves in
\* the source c given the registered clients.  imp: whether
\* gs_texture_create_from_dmabuf returns a texture.
TickSource(c, clients, imp) ==
    LET found == \E j \in DOMAIN clients : clients[j].id = c.client_id
        client == clients[CHOOSE j \in DOMAIN clients : clients[j].id = c.client_id]
    IN  SelectClient(
            IF c.client_id = 0 THEN c
            ELSE IF ~found THEN LoseClient(c)
            ELSE IF c.buf_id # client.buf_id
            THEN [c EXCEPT !.tdata = client.tdata, !.texture = imp,
                           !.buf_id = client.buf_id, !.fdver = client.fdver]
            ELSE c,
            clients)

\* vkcapture_source_video_tick, the section under server.mutex.  imp: whether
\* gs_texture_create_from_dmabuf returns a texture; wr: whether write() of the
\* kick byte returns 1.
vkcapture_source_video_tick(imp, wr) ==
    /\ thr.pc # "crashed"
    /\ LET found == \E j \in DOMAIN server.clients : server.clients[j].id = ctx.client_id
           client == server.clients[CHOOSE j \in DOMAIN server.clients :
                                        server.clients[j].id = ctx.client_id]
           imports == ctx.client_id # 0 /\ found /\ ctx.buf_id # client.buf_id
           kick == (ctx.client_id = 0 \/ ~found) /\ server.clients # <<>>
       IN  /\ ctx' = TickSource(ctx, server.clients, imp)
           /\ lastTick' =
                 IF imports
                 THEN [NoTick EXCEPT !.imported = TRUE,
                                     !.tdver = client.tdata.ver,
                                     !.fdver = client.fdver,
                                     !.buf_id = client.buf_id,
                                     !.nfd = client.tdata.nfd,
                                     !.nvalid = Cardinality(ValidFds(client.buf_fds)),
                                     !.found = client.id,
                                     !.nclients = Len(server.clients)]
                 ELSE [NoTick EXCEPT !.cleared = ctx.client_id # 0 /\ ~found,
                                     !.kicked = IF kick THEN server.clients[1].id ELSE 0,
                                     !.kickfd = IF kick THEN server.clients[1].sockfd ELSE 0,
                                     !.wrote = kick /\ wr,
                                     !.found = IF ctx.client_id # 0 /\ found THEN client.id ELSE 0,
                                     !.nclients = Len(server.clients)]
    /\ UNCHANGED <<conns, server, thr, rfd, sameSize, stamp, cleaned, lastRecv>>
    /\ UNCHANGED <<layerVars, threadVars>>

\* The messages of the two-producer specification: a well-formed texture
\* message with one fd, and a message of an unknown kind carrying an fd
FdMessages ==
    {m \in Messages : m.fds = 1 /\ (m.type = "other" \/ (m.type = "texture" /\ m.nfd = 1))}

\* obs_module_load has started the server thread, in either build; the
\* layer is not loaded in the broker's process
BrokerInit == LayerInit /\ \E same \in BOOLEAN : BrokerStart(same)

\* The broker with one producer connection sending any message
BrokerNext ==
    \/ Connect(1)
    \/ \E m \in Messages \cup {TooManyFds} : Send(1, m)
    \/ Close(1)
    \/ SrvPoll
    \/ SrvScan
    \/ SrvRecv
    \/ SrvTex
    \/ SrvQuit
    \/ obs_module_unload
    \/ \E imp, wr \in BOOLEAN : vkcapture_source_video_tick(imp, wr)

BrokerSpec == BrokerInit /\ [][BrokerNext]_vars

\* The broker with two producer connections
ClientsNext ==
    \/ \E k \in Conns : Connect(k)
    \/ \E k \in Conns, m \in FdMessages : Send(k, m)
    \/ \E k \in Conns : Close(k)
    \/ SrvPoll
    \/ SrvScan
    \/ SrvRecv
    \/ SrvTex
    \/ SrvQuit
    \/ obs_module_unload
    \/ \E imp, wr \in BOOLEAN : vkcapture_source_video_tick(imp, wr)

ClientsSpec == Init /\ [][ClientsNext]_vars

\* The messages of the shutdown specification: those of FdMessages and the
\* texture message with more fds than buf_fds has slots
QuitMessages == FdMessages \cup {TooManyFds}

\* The broker with two producer connections and no source, up to its unload
QuitNext ==
    \/ \E k \in Conns : Connect(k)
    \/ \E k \in Conns, m \in QuitMessages : Send(k, m)
    \/ \E k \in Conns : Close(k)
    \/ SrvPoll
    \/ SrvScan
    \/ SrvRecv
    \/ SrvTex
    \/ SrvQuit
    \/ obs_module_unload

QuitSpec == Init /\ [][QuitNext]_vars

\* The server thread keeps running
QuitLiveSpec == QuitSpec /\ WF_vars(SrvPoll \/ SrvScan \/ SrvRecv \/ SrvTex \/ SrvQuit)

(***************************************************************************)
(* Properties of the broker                                                *)
(***************************************************************************)
\* C7: a video tick that reads a client's tdata and buf_fds reads the tdata
\* of the same TextureInfo message whose fds are installed in buf_fds, never
\* the tdata of a newer message together with the fds and buf_id of an
\* older one.
C7_TickSeesWholeUpdate ==
    lastTick.imported => lastTick.tdver = lastTick.fdver

\* C8: in every state in which the server thread does not hold server.mutex,
\* the buf_fds of every registered client holds open fds in exactly its
\* first tdata.nfd slots and -1 in the others.
C8_BufFdsMatchNfd ==
    \A j \in DOMAIN server.clients :
        \A n \in 1 .. 4 :
            LET fd == server.clients[j].buf_fds[n]
            IN  /\ fd >= 0 <=> n <= server.clients[j].tdata.nfd
                /\ fd >= 0 => rfd[fd].st = "open"

\* C9: once server_cleanup_client has removed a client, every fd received
\* from it and its socket have been closed exactly once, its socket is no
\* entry of the poll set and its record is not in server.clients.
C9_CleanupClosesEverything ==
    \A c \in cleaned :
        /\ \A f \in DOMAIN rfd : rfd[f].owner = c.id => rfd[f].st = "closed"
        /\ conns[c.sockfd - LISTENFD].sock = "closed"
        /\ FdIndex(server.fds, c.sockfd) = 0
        /\ \A j \in DOMAIN server.clients : server.clients[j].id # c.id

\* C10: when the server thread has left the recvmsg loop of a client, every
\* received fd that is still open is installed in the buf_fds of a
\* registered client.
C10_ReceivedFdInstalledOrClosed ==
    thr.pc \in {"poll", "scan", "done"} =>
        \A f \in DOMAIN rfd :
            rfd[f].st = "open" =>
                \E j \in DOMAIN server.clients : f \in ValidFds(server.clients[j].buf_fds)

\* C11: after a round of the recvmsg loop that read a message of an unknown
\* kind, or met the end of the stream, the client it read from is no longer
\* registered: the server thread handles no further message of it.
C11_BadMessageCleansUp ==
    lastRecv.op \in {"other", "eof"} =>
        \A j \in DOMAIN server.clients : server.clients[j].id # lastRecv.id

\* C12: the step of the texture branch that finds the nfd field of the
\* message different from the number of fds its control message carried
\* closes every fd that arrived with the message, removes the client record
\* and the poll entry of its socket, and changes no buf_id.
C12_NfdMismatchRejects ==
    [][(/\ thr.pc = "tex"
        /\ thr'.pc # "tex"
        /\ server.clients[thr.i].tdata.nfd # Len(thr.buf_fds))
       => (/\ \A f \in ValidFds(thr.buf_fds) : rfd'[f].st = "closed"
           /\ \A j \in DOMAIN server'.clients :
                 server'.clients[j].id # server.clients[thr.i].id
           /\ FdIndex(server'.fds, server.clients[thr.i].sockfd) = 0
           /\ thr'.bufid = thr.bufid
           /\ \A j \in DOMAIN server'.clients :
                 \E n \in DOMAIN server.clients :
                     server.clients[n] = server'.clients[j])]_vars

\* The client the source has selected, when it is registered
Selected == {j \in DOMAIN server.clients : server.clients[j].id = ctx.client_id}

\* C13: the step that installs the fds of a TextureInfo gives the client a
\* buf_id that is not 0 and greater than every buf_id assigned before; no
\* two registered clients share a buf_id other than 0; and when the buf_id
\* the source stores equals the one of its selected client, the source has
\* imported the fds that client holds.
C13_BufIdStrictlyIncreases ==
    /\ [](/\ \A j \in DOMAIN server.clients : server.clients[j].buf_id <= thr.bufid
          /\ \A j, n \in DOMAIN server.clients :
                (j # n /\ server.clients[j].buf_id # 0) =>
                    server.clients[j].buf_id # server.clients[n].buf_id
          /\ \A j \in Selected :
                ctx.buf_id = server.clients[j].buf_id =>
                    ctx.fdver = server.clients[j].fdver)
    /\ [][(thr.pc = "tex" /\ thr'.pc = "recv") =>
             /\ thr'.bufid > thr.bufid
             /\ thr'.bufid > 0
             /\ server'.clients[thr.i].buf_id = thr'.bufid]_vars

\* C13 witness: two registered clients have been assigned buf_ids, and the
\* source has imported the buffer of the one it selected
C13_Witness ==
    /\ Len(server.clients) = 2
    /\ server.clients[1].buf_id > 0
    /\ server.clients[2].buf_id > server.clients[1].buf_id
    /\ \E j \in Selected : ctx.buf_id = server.clients[j].buf_id /\ ctx.buf_id > 0

\* C14: a source has at most one selected client, and a tick (or any other
\* step) leaves client_id alone while the record with that id is registered,
\* whatever the other clients do.
C14_SelectionStable ==
    /\ [](Cardinality(Selected) <= 1)
    /\ [][(ctx.client_id # 0 /\ Selected # {}) => ctx'.client_id = ctx.client_id]_vars

\* A tick found the selected client while a second client, which has had a
\* texture installed, was registered, and kept the selection.
C14_Witness ==
    /\ lastTick.nclients = 2 /\ lastTick.found # 0
    /\ ctx.client_id = lastTick.found
    /\ Len(server.clients) = 2 /\ server.clients[1].id = ctx.client_id
    /\ server.clients[2].buf_id # 0

CleanedIds == {c.id : c \in cleaned}

\* C16: every accepted connection gets an id that is not 0 and greater than
\* every id handed out before; once server_cleanup_client has removed a
\* client, its record is gone, its socket is closed once and is no entry of
\* the poll set, every fd that was stored in its buf_fds is closed, and no
\* registered client carries its id, so a source that selected it selects
\* nobody.
C16_ReconnectIsNewClient ==
    /\ [](/\ \A j \in DOMAIN server.clients :
                /\ server.clients[j].id > 0
                /\ server.clients[j].id <= thr.clientid
                /\ server.clients[j].id \notin CleanedIds
                /\ \A n \in DOMAIN server.clients :
                       j # n => server.clients[j].id # server.clients[n].id
          /\ \A c \in cleaned :
                /\ c.id <= thr.clientid
                /\ conns[c.sockfd - LISTENFD].sock = "closed"
                /\ FdIndex(server.fds, c.sockfd) = 0
                /\ \A f \in DOMAIN rfd :
                       (rfd[f].owner = c.id /\ rfd[f].buf) => rfd[f].st = "closed"
          /\ ctx.client_id \in CleanedIds => Selected = {})
    /\ [][Len(server'.clients) > Len(server.clients) =>
             LET new == server'.clients[Len(server'.clients)]
             IN  /\ new.id > thr.clientid
                 /\ new.id = thr'.clientid
                 /\ \A j \in DOMAIN server.clients : new.id > server.clients[j].id
                 /\ \A c \in cleaned : new.id > c.id]_vars

\* The first producer had a buffer installed and was selected, then
\* disconnected and was cleaned up; the producer that connected afterwards
\* is registered under a greater id and the source has moved on to it.
C16_Witness ==
    /\ \E c \in cleaned :
          /\ \E f \in DOMAIN rfd : rfd[f].owner = c.id /\ rfd[f].buf
          /\ Len(server.clients) = 1
          /\ server.clients[1].id > c.id
          /\ ctx.client_id = server.clients[1].id
    /\ lastTick.cleared

\* C17: a round of the recvmsg loop that reads a ClientInfo and accepts it
\* stores it in the client's cdata and changes nothing else of any client
\* record (buf_id, buf_fds, tdata), leaves the source alone, and the next tick
\* does to the source exactly what it would have done without the message.
C17_ClientInfoOnlyCdata ==
    [][(/\ thr.pc = "recv" /\ thr'.pc = "scan"
        /\ lastRecv'.op = "client" /\ sameSize)
       => (/\ DOMAIN server'.clients = DOMAIN server.clients
           /\ \A j \in DOMAIN server.clients :
                 IF j = thr.i
                 THEN /\ server'.clients[j].cdata = lastRecv'.ver
                      /\ server'.clients[j] =
                            [server.clients[j] EXCEPT !.cdata = lastRecv'.ver]
                 ELSE server'.clients[j] = server.clients[j]
           /\ ctx' = ctx
           /\ \A imp \in BOOLEAN :
                 TickSource(ctx', server'.clients, imp) =
                     TickSource(ctx, server.clients, imp))]_vars

\* The selected client, whose buffer the source has imported, has had a
\* ClientInfo stored; the source still holds the texture of that buffer.
C17_Witness ==
    /\ sameSize /\ lastRecv.op = "client"
    /\ \E j \in Selected :
          /\ server.clients[j].id = lastRecv.id
          /\ server.clients[j].cdata = lastRecv.ver
          /\ server.clients[j].buf_id > 0
          /\ ctx.buf_id = server.clients[j].buf_id
    /\ ctx.texture

\* C18: every install for the selected client gives it a buf_id it did not
\* have, and the source rebuilds its texture for each of them: when a buffer
\* is installed for a client of which the source has imported a buffer
\* before, the source has imported the buffer that is being replaced.
C18_RebuildOnEachTexture ==
    [][(/\ thr.pc = "tex" /\ thr'.pc = "recv"
        /\ server.clients[thr.i].id = ctx.client_id
        /\ server.clients[thr.i].buf_id # 0 /\ ctx.buf_id # 0)
       => (/\ server'.clients[thr.i].buf_id # server.clients[thr.i].buf_id
           /\ ctx.buf_id = server.clients[thr.i].buf_id)]_vars

\* C19: export init waits for the kick byte: a present that runs while the
\* producer is not connected, or connects in this very call, and in which
\* recv reads no byte from the socket, sends no TextureInfo and creates no
\* export.
C19_InitWaitsForKick ==
    [][(/\ connfd < 0
        /\ last'.op = "QueuePresentKHR" /\ ~last'.byte)
       => (/\ last'.sent = "none"
           /\ \A h \in Handles :
                 (swaps'[last'.dev][h] # NoSwap /\ ExportLive(swaps'[last'.dev][h]))
                     => (swaps[last'.dev][h] # NoSwap /\ ExportLive(swaps[last'.dev][h])))]_vars

\* C20: counting the capture_update_socket calls of all devices from the
\* last call that touched the socket (connect attempt or recv), a call
\* touches the socket if and only if it is the 60th; the calls are the
\* presents of the process, one after the other.
C20_EverySixtiethCall ==
    (last.op = "QueuePresentKHR" /\ last.nth # 0) =>
        (last.touched <=> last.nth = LIMITER)

\* The 60th call touched the socket, and the 59th call counted towards it
\* was a present on the other device.
C20_Witness ==
    /\ last.op = "QueuePresentKHR" /\ last.touched /\ last.nth = LIMITER
    /\ last.prev \in Devices \ {last.dev}

\* A swapchain record whose extent has width 0 or height 0
ZeroArea(s) == s.image_extent.width = 0 \/ s.image_extent.height = 0

\* C21: a present of a tracked swapchain whose extent has width 0 or height
\* 0 sends no TextureInfo, leaves the swapchain without export image, memory
\* and fd, and does not set capturing; such a swapchain never has an export.
C21_ZeroExtentNeverExports ==
    /\ [](\A d \in Devices : \A h \in Tracked(d) :
             ZeroArea(swaps[d][h]) =>
                 /\ swaps[d][h].export_image = "null"
                 /\ swaps[d][h].export_mem = "null"
                 /\ swaps[d][h].dmabuf_fd = -1
                 /\ swaps[d][h].exports = 0
                 /\ ~swaps[d][h].captured)
    /\ [][(/\ last'.op = "QueuePresentKHR"
           /\ swaps[last'.dev][last'.sc] # NoSwap
           /\ ZeroArea(swaps[last'.dev][last'.sc]))
          => (/\ last'.sent = "none"
              /\ swaps'[last'.dev][last'.sc] = swaps[last'.dev][last'.sc]
              /\ ~capturing => ~capturing')]_vars

\* The producer is connected and has presented a swapchain of height 0 at
\* least twice since the socket was last looked at; nothing is captured.
C21_Witness ==
    /\ last.op = "QueuePresentKHR" /\ connfd >= 0 /\ last.calls >= 2
    /\ swaps[last.dev][last.sc] # NoSwap
    /\ swaps[last.dev][last.sc].image_extent = ZeroHeight
    /\ ~capturing

(***************************************************************************)
(* The producer and the broker on one socket                               *)
(*                                                                         *)
(* The connection behind capture_data.connfd is one of conns, and what     *)
(* connect, recv and sendmsg return to the producer is what the state of   *)
(* the broker makes them return.                                           *)
(***************************************************************************)
\* The discriminants of capture.h
CAPTURE_CLIENT_DATA_TYPE == 1
CAPTURE_TEXTURE_DATA_TYPE == 2

\* The first byte of the message on the wire: the low byte of td.width
FirstByte(td) == td.width % 256

\* What the broker's test of buf[0] makes of the struct msg_texture_data td
WireType(td) ==
    IF FirstByte(td) = CAPTURE_CLIENT_DATA_TYPE THEN "client"
    ELSE IF FirstByte(td) = CAPTURE_TEXTURE_DATA_TYPE THEN "texture"
    ELSE "other"

\* The byte of the message where the broker reads tdata.nfd (offset 13, the
\* second byte of td.stride, for the row pitch of a linear image of four
\* bytes per pixel)
WireNfd(td) == ((td.width * 4) \div 256) % 256

\* The connection behind connfd: the one the producer opened and has not
\* closed (0: none)
LayerConn ==
    IF \E k \in Conns : conns[k].state # "none" /\ ~conns[k].peer_closed
    THEN CHOOSE k \in Conns : conns[k].state # "none" /\ ~conns[k].peer_closed
    ELSE 0

\* The next connection a producer can open (0: none left)
FreeConn ==
    IF \E k \in Conns : conns[k].state = "none"
    THEN CHOOSE k \in Conns :
            conns[k].state = "none" /\ \A j \in 1 .. (k - 1) : conns[j].state # "none"
    ELSE 0

\* The broker has bound the socket and its thread or process has not ended
Listening == thr.pc \notin {"done", "crashed"}

\* What connect() returns
ConnectResult == IF Listening /\ FreeConn # 0 THEN "ok" ELSE "fail"

\* What recv() returns on connection k: the broker writes nothing when no
\* source ticks
RecvResult(k) ==
    IF k = 0 THEN "eagain"
    ELSE IF conns[k].state = "dropped" \/ (conns[k].state = "pending" /\ ~Listening)
    THEN "econnreset"
    ELSE IF conns[k].sock \in {"closed", "twice"} THEN "eof"
    ELSE "eagain"

\* OBS_QueuePresentKHR in a process whose socket is the broker's
StreamPresent(d, sc) ==
    LET polls == d \in devices /\ Captures(d) /\ Polls(Ctx(d))
        conn == ConnectResult
        connects == polls /\ connfd < 0 /\ conn = "ok"
        k == IF connects THEN FreeConn ELSE LayerConn
        rcv == IF connects THEN "eagain" ELSE RecvResult(LayerConn)
        closes == polls /\ connfd >= 0 /\ RecvCloses(rcv)
    IN  /\ QueuePresent(d, sc, conn, rcv, "ok", "ok", "ok")
        /\ conns' = [j \in Conns |->
                        IF j # k THEN conns[j]
                        ELSE [conns[j] EXCEPT
                                !.state = IF connects THEN "pending" ELSE @,
                                !.peer_closed = closes,
                                !.queue = IF last'.sent = "none" THEN @
                                          ELSE Append(@, [type |-> WireType(last'.msg),
                                                          nfd |-> WireNfd(last'.msg),
                                                          fds |-> last'.msg.fds,
                                                          ver |-> stamp + 1])]]
        /\ stamp' = IF last'.sent = "none" THEN stamp ELSE stamp + 1
        /\ UNCHANGED <<server, thr, rfd, ctx, sameSize, cleaned, lastTick, lastRecv>>

\* The broker starts again after its thread has ended: the process that
\* held the sockets is gone (its fds are closed and the connections still
\* in the backlog are reset), and obs_module_load of a new process starts
\* server_thread_run
BrokerRestart ==
    /\ thr.pc \in {"done", "crashed"}
    /\ conns' = [k \in Conns |->
                    [conns[k] EXCEPT
                        !.state = IF @ = "pending" THEN "dropped" ELSE @,
                        !.sock = IF @ = "open" THEN "closed" ELSE @]]
    /\ server' = [quit |-> FALSE, fds |-> <<[fd |-> LISTENFD, revents |-> FALSE]>>,
                  clients |-> <<>>]
    /\ thr' = ThreadStart
    /\ rfd' = <<>>
    /\ cleaned' = {}
    /\ lastRecv' = NoRecv
    /\ UNCHANGED <<ctx, sameSize, stamp, lastTick>>
    /\ UNCHANGED <<layerVars, threadVars>>

\* The steps of server_thread_run
ServerThread == SrvPoll \/ SrvScan \/ SrvRecv \/ SrvTex \/ SrvQuit

\* One device presents one swapchain of a valid extent; the broker is
\* unloaded while it holds the producer's first connection, and starts
\* again.  The broker never takes the message of this extent for a texture
\* message, so its thread never is in the texture branch (SrvTex).
StreamNext ==
    \/ OBS_CreateDevice("d1", TRUE, "ok")
    \/ OBS_CreateSwapchainKHR("d1", "s1", ValidExtent, 1, "ok")
    \/ StreamPresent("d1", "s1")
    \/ SrvPoll
    \/ SrvScan
    \/ SrvRecv
    \/ SrvQuit
    \/ (conns[1].sock = "open" /\ obs_module_unload)
    \/ BrokerRestart

StreamSpec == Init /\ [][StreamNext]_vars

\* The guard of StreamPresent("d1", "s1"); every such present changes the
\* limiter or the socket, so this is ENABLED <<StreamPresent("d1", "s1")>>_vars
PresentEnabled == ~crashed /\ "d1" \in devices /\ <<"d1", "s1">> \in appSwaps

\* The application keeps presenting (weak fairness of StreamPresent("d1",
\* "s1"), with its ENABLED written out as PresentEnabled), the broker's
\* thread keeps running, and a broker that has ended is started again
StreamFair ==
    /\ []<>(~PresentEnabled) \/ []<><<StreamPresent("d1", "s1")>>_vars
    /\ WF_vars(ServerThread)
    /\ WF_vars(BrokerRestart)

StreamLiveSpec == StreamSpec /\ StreamFair

\* The broker has closed its end of the producer's first connection while
\* the producer is capturing on it
BrokerClosedWhileCapturing ==
    /\ capturing /\ connfd >= 0 /\ LayerConn = 1
    /\ conns[1].sock = "closed"

\* The producer has closed the first connection and released the export
ExportReleased ==
    /\ conns[1].peer_closed /\ connfd < 0 /\ ~capturing
    /\ cur_swap["d1"] = NULL
    /\ swaps["d1"]["s1"] # NoSwap
    /\ swaps["d1"]["s1"].export_image = "null"
    /\ swaps["d1"]["s1"].export_mem = "null"
    /\ swaps["d1"]["s1"].dmabuf_fd = -1

\* The producer captures again on a second connection, with a second export
\* whose fd it has sent there
ExportedAgain ==
    /\ conns[1].peer_closed /\ LayerConn = 2 /\ connfd >= 0 /\ capturing
    /\ swaps["d1"]["s1"] # NoSwap
    /\ swaps["d1"]["s1"].dmabuf_fd = DMABUF
    /\ swaps["d1"]["s1"].exports = 2
    /\ stamp = 2

\* C22: when the broker closes the connection while the producer captures
\* and a broker listens again, a producer that keeps presenting a swapchain
\* of valid extent eventually closes the socket, releases the export image,
\* memory and fd and clears capturing; from there it eventually reconnects
\* and sends a new export.  The call that closes the socket does not
\* reconnect, and no export is created while the previous one is live.
C22_RecoversAfterBrokerClose ==
    /\ BrokerClosedWhileCapturing ~> ExportReleased
    /\ ExportReleased ~> ExportedAgain
    /\ [][(conns'[1].peer_closed /\ ~conns[1].peer_closed)
            => (connfd' < 0 /\ ~capturing' /\ last'.sent = "none")]_vars
    /\ [](swaps["d1"]["s1"] # NoSwap => ~swaps["d1"]["s1"].lost)

\* C22 witness: the second export has been sent on the second connection
\* after a present that closed the first one at end of stream
C22_Witness ==
    /\ ExportedAgain
    /\ conns[1].sock = "closed"
    /\ conns[2].state = "accepted"
    /\ ~swaps["d1"]["s1"].lost

\* C23: destroying the swapchain that is being captured releases its export
\* (nothing is left live or released twice) and clears capturing and
\* cur_swap; a present of a tracked swapchain of valid extent that has no
\* export yet, made while the producer is connected and not capturing, sends
\* one TextureInfo with the width and height of that swapchain and the fd
\* exported by this call; while that swapchain is captured its presents send
\* nothing more.
C23_RecreatedSwapchainSendsNewExtent ==
    /\ [][(/\ last'.op = "DestroySwapchainKHR"
           /\ valid[last'.dev] /\ capturing
           /\ cur_swap[last'.dev] = last'.sc)
          => (/\ ~last'.lost /\ ~last'.twice
              /\ ~capturing'
              /\ cur_swap'[last'.dev] = NULL
              /\ swaps'[last'.dev][last'.sc] = NoSwap)]_vars
    /\ [][(/\ last'.op = "QueuePresentKHR"
           /\ connfd >= 0 /\ connfd' >= 0 /\ ~capturing
           /\ swaps[last'.dev][last'.sc] # NoSwap
           /\ ~ZeroArea(swaps[last'.dev][last'.sc])
           /\ swaps[last'.dev][last'.sc].exports = 0)
          => (/\ last'.sent = "ok"
              /\ last'.msg.width = swaps[last'.dev][last'.sc].image_extent.width
              /\ last'.msg.height = swaps[last'.dev][last'.sc].image_extent.height
              /\ last'.msg.fds = 1
              /\ last'.msg.fd = DMABUF
              /\ swaps[last'.dev][last'.sc].dmabuf_fd = -1
              /\ swaps'[last'.dev][last'.sc].dmabuf_fd = DMABUF
              /\ swaps'[last'.dev][last'.sc].exports = 1
              /\ capturing')]_vars
    /\ [][(/\ last'.op = "QueuePresentKHR"
           /\ capturing /\ cur_swap[last'.dev] = last'.sc /\ connfd' >= 0)
          => last'.sent = "none"]_vars

\* C23 witness: with the first swapchain destroyed, a present of the second
\* one, of another extent, has sent its width and height on the connection
\* made by an earlier call
C23_Witness ==
    /\ last.op = "QueuePresentKHR" /\ last.sc = "s2" /\ last.sent = "ok"
    /\ last.msg.width = SmallExtent.width /\ last.msg.height = SmallExtent.height
    /\ last.msg.fd = DMABUF
    /\ swaps["d1"]["s1"] = NoSwap /\ <<"d1", "s1">> \notin appSwaps
    /\ swaps["d1"]["s2"].exports = 1
    /\ limiter > 0 /\ connfd >= 0 /\ capturing

\* The size of a TextureInfo on the wire (capture.h): width, height and
\* format of four bytes, flip and nfd of one, four strides and four offsets
\* of four, and the modifier of eight
CAPTURE_TEXTURE_DATA_SIZE == 54

RECURSIVE LeBytes(_, _)
\* The n bytes of the little-endian encoding of v
LeBytes(v, n) == IF n = 0 THEN <<>> ELSE <<v % 256>> \o LeBytes(v \div 256, n - 1)

\* DRM_FORMAT_MOD_INVALID, 0x00ffffffffffffff, as its eight bytes
DRM_FORMAT_MOD_INVALID == <<255, 255, 255, 255, 255, 255, 255, 0>>

\* C24: the message the producer sends is a TextureInfo as the broker
\* parses it: its first byte is the TextureInfo discriminant, its length the
\* TextureInfo size, the nfd the broker reads is 1 with one fd attached, and
\* the modifier is DRM_FORMAT_MOD_INVALID; the broker takes every message it
\* reads from the producer for a texture message and installs its fd.
C24_ProducerSendsTextureInfo ==
    /\ last.sent # "none" =>
          /\ FirstByte(last.msg) = CAPTURE_TEXTURE_DATA_TYPE
          /\ last.msg.len = CAPTURE_TEXTURE_DATA_SIZE
          /\ WireNfd(last.msg) = 1 /\ last.msg.fds = 1
          /\ LeBytes(last.msg.modifiers, 8) = DRM_FORMAT_MOD_INVALID
    /\ lastRecv.op \in {"client", "texture", "other", "nocmsg", "mismatch",
                        "installed"}
          => lastRecv.op \in {"texture", "installed"}

\* The frame slots of the queue of device d
Slots(d) == {queues[d].frames[i] : i \in DOMAIN queues[d].frames}

\* C25 as stated: for every frame slot, cmd_buffer_busy is false if and
\* only if the slot's fence is signaled.
C25_IdleIffSignaled ==
    \A d \in devices : \A f \in Slots(d) :
        ~f.cmd_buffer_busy <=> f.fence = "signaled"

\* C25, amended: for every frame slot, cmd_buffer_busy is false if and only
\* if the slot's fence is unsignaled (never submitted, or waited for and
\* reset); a busy slot's fence is submitted: pending, or signaled by the GPU
\* and not yet waited for.
C25_IdleIffUnsignaled ==
    \A d \in devices : \A f \in Slots(d) :
        /\ ~f.cmd_buffer_busy <=> f.fence = "unsignaled"
        /\ f.cmd_buffer_busy => f.fence \in {"pending", "signaled"}

\* C25 witness: of the two slots of a ring, one is busy with the fence the
\* GPU has signaled and the other was waited for, reset and not submitted
\* again or never submitted
C25_Witness ==
    \E d \in devices : \E f, g \in Slots(d) :
        /\ f.cmd_buffer_busy /\ f.fence = "signaled"
        /\ ~g.cmd_buffer_busy /\ g.fence = "unsignaled"
        /\ last.op = "QueuePresentKHR" /\ last.waited

\* server_thread_run has returned with nothing of its own left open
BrokerExited ==
    /\ thr.pc = "done"
    /\ server.clients = <<>>
    /\ \A k \in Conns : conns[k].sock # "open"
    /\ \A f \in DOMAIN rfd : rfd[f].buf => rfd[f].st # "open"
    /\ thr.sockfd = "closed"
    /\ ~thr.bound

\* C26: once the quit flag is set the server thread does not poll again: it
\* ends the round it is in and returns, with every client cleaned up (its
\* socket and buffer fds closed, the clients array empty), the listening
\* socket closed and the socket file unlinked.
C26_QuitEndsThread ==
    /\ server.quit ~> BrokerExited
    /\ [][(server.quit /\ thr.pc = "poll") => thr'.pc \in {"poll", "done"}]_vars

\* C27: when OBS_DestroyDevice returns, every frame slot of the device's
\* queue has been destroyed, after a wait if it was busy; no export image,
\* memory or fd of the device is left unreleased; and capturing is true only
\* if a remaining device has a captured swapchain.
C27_DestroyDeviceReleasesAll ==
    [][last'.op = "DestroyDevice" =>
          /\ valid[last'.dev] \/ queues[last'.dev].frames = <<>>
          /\ ~hazard'
          /\ ~last'.lost
          /\ capturing' => \E d \in devices' : cur_swap'[d] # NULL]_vars

\* C28: a present in which export init fails (the present that marks the
\* device invalid) leaves the swapchain without export image, memory and fd,
\* with nothing of the attempt left live or destroyed twice, capturing
\* false and cur_swap NULL.
C28_FailedInitUndone ==
    [][(/\ last'.op = "QueuePresentKHR"
        /\ valid[last'.dev] /\ ~valid'[last'.dev]
        /\ ~swaps[last'.dev][last'.sc].twice /\ ~swaps[last'.dev][last'.sc].lost)
       => (/\ swaps'[last'.dev][last'.sc].export_image = "null"
           /\ swaps'[last'.dev][last'.sc].export_mem = "null"
           /\ swaps'[last'.dev][last'.sc].dmabuf_fd = -1
           /\ ~swaps'[last'.dev][last'.sc].captured
           /\ ~swaps'[last'.dev][last'.sc].twice
           /\ ~swaps'[last'.dev][last'.sc].lost
           /\ ~capturing'
           /\ cur_swap'[last'.dev] = NULL)]_vars

\* C29: when an instance or a swapchain is created only by the retry with
\* the original arguments, the layer keeps no record of it and calls the
\* next layer's create twice, never more; a present of such a swapchain is
\* passed to the next layer once and the layer does nothing else with it.
C29_RetryLeavesNoState ==
    /\ [][(/\ last'.op = "CreateInstance" /\ last'.next_calls = 2
           /\ last'.inst \in loader'.app)
          => loader'.instances[last'.inst] = "none"]_vars
    /\ [][(/\ last'.op = "CreateSwapchainKHR" /\ last'.next_calls = 2
           /\ <<last'.dev, last'.sc>> \in appSwaps')
          => swaps'[last'.dev][last'.sc] = NoSwap]_vars
    /\ [][last'.op \in {"CreateInstance", "CreateSwapchainKHR"}
          => last'.next_calls <= 2]_vars
    /\ [][(/\ last'.op = "QueuePresentKHR"
           /\ swaps[last'.dev][last'.sc] = NoSwap)
          => (/\ last'.next_calls = 1 /\ ~crashed'
              /\ last'.sent = "none" /\ ~last'.copied)]_vars

\* C30: the first OBS_Negotiate initializes the registries and the
\* connection singleton (empty lists, connfd -1, capturing false) and no
\* later one does: a later call leaves connfd, capturing, the registered
\* instances and the registered devices as they are; every call returns the
\* smaller of the loader's version and the layer's.
C30_NegotiateInitializesOnce ==
    /\ [][last'.op = "Negotiate" =>
            last'.ret = Min(last'.arg, CURRENT_LOADER_LAYER_INTERFACE_VERSION)]_vars
    /\ [][(last'.op = "Negotiate" /\ ~loader.vulkan_seen) =>
            /\ loader'.vulkan_seen
            /\ connfd' = -1 /\ ~capturing' /\ devices' = {}
            /\ \A i \in Instances : loader'.instances[i] = "none"]_vars
    /\ [][(last'.op = "Negotiate" /\ loader.vulkan_seen) =>
            /\ connfd' = connfd /\ capturing' = capturing
            /\ devices' = devices /\ loader' = loader
            /\ valid' = valid /\ swaps' = swaps /\ cur_swap' = cur_swap]_vars
    /\ [][loader.vulkan_seen => loader'.vulkan_seen]_vars

\* C30 witness: a later Negotiate asking for a version above the layer's has
\* returned the layer's, with the producer connected and capturing and an
\* instance and a device registered
C30_Witness ==
    /\ last.op = "Negotiate" /\ last.arg = MaxLoaderVersion
    /\ last.ret = CURRENT_LOADER_LAYER_INTERFACE_VERSION
    /\ connfd >= 0 /\ capturing
    /\ "d1" \in devices /\ valid["d1"]
    /\ loader.instances["i1"] = "valid"

\* C31 as stated: after every capture the ring length of the queue equals
\* the image count of the swapchain just presented, with frame_index inside
\* the ring.
C31_RingEqualsImageCount ==
    (last.op = "QueuePresentKHR" /\ last.copied /\ swaps[last.dev][last.sc] # NoSwap) =>
        /\ queues[last.dev].frame_count = swaps[last.dev][last.sc].image_count
        /\ queues[last.dev].frame_index \in 0 .. (queues[last.dev].frame_count - 1)

\* C31, amended: after every capture the ring is at least as long as the
\* swapchain just presented has images and frame_index lies inside it.  A
\* capture of a swapchain with more images than the ring has slots makes a
\* new ring of that many fresh slots and uses its slot 0; any other capture
\* keeps the length, uses the slot at frame_index and leaves the other
\* slots as they are.  (Every present that captures counts one call in
\* limiter, which tells its step from a GPU completion.)
C31_RingCoversImageCount ==
    /\ [](\A d \in devices :
            /\ queues[d].frame_count = Len(queues[d].frames)
            /\ queues[d].frame_count > 0 =>
                  queues[d].frame_index \in 0 .. (queues[d].frame_count - 1))
    /\ [][(last'.op = "QueuePresentKHR" /\ last'.copied /\ limiter' # limiter) =>
            LET q == queues[last'.dev]
                r == queues'[last'.dev]
                n == swaps[last'.dev][last'.sc].image_count
            IN  /\ r.frame_count >= n
                /\ IF n > q.frame_count
                   THEN /\ r.frame_count = n
                        /\ r.frame_index = 1 % n
                        /\ \A i \in 2 .. n : r.frames[i] = NewFrame
                   ELSE /\ r.frame_count = q.frame_count
                        /\ r.frame_index = (q.frame_index + 1) % q.frame_count
                        /\ \A i \in 1 .. q.frame_count :
                              i # q.frame_index + 1 => r.frames[i] = q.frames[i]]_vars

\* C31 witness: a swapchain of one image has been captured on a ring of two
\* slots
C31_Witness ==
    /\ last.op = "QueuePresentKHR" /\ last.copied
    /\ swaps[last.dev][last.sc] # NoSwap
    /\ swaps[last.dev][last.sc].image_count = 1
    /\ queues[last.dev].frame_count = 2

C33_MismatchTearsDown ==
    [][(/\ last'.op = "QueuePresentKHR"
        /\ limiter' # limiter
        /\ capturing
        /\ (IF swaps[last'.dev][last'.sc] = NoSwap THEN NULL ELSE last'.sc)
              # cur_swap[last'.dev])
       => /\ ~capturing'
          /\ cur_swap'[last'.dev] = NULL
          /\ \A h \in Handles :
                swaps'[last'.dev][h] # NoSwap =>
                    /\ swaps'[last'.dev][h].export_image = "null"
                    /\ swaps'[last'.dev][h].export_mem = "null"
                    /\ swaps'[last'.dev][h].dmabuf_fd = -1
          /\ ~last'.copied
          /\ last'.sent = "none"
          /\ queues' = queues]_vars

\* C33 witness: a present of a tracked swapchain has torn down the export
\* another swapchain of the device held, with the socket still open
C33_Witness ==
    /\ last.op = "QueuePresentKHR" /\ last.tracked /\ ~last.copied
    /\ valid[last.dev] /\ connfd >= 0 /\ ~capturing
    /\ cur_swap[last.dev] = NULL
    /\ \E h \in Handles \ {last.sc} :
          /\ swaps[last.dev][h] # NoSwap
          /\ swaps[last.dev][h].exports >= 1
          /\ swaps[last.dev][h].dmabuf_fd = -1

\* C34: a present on a device that is invalid, or on a queue that does not
\* support transfer, changes nothing of the layer: limiter, connfd,
\* capturing, the registries, every swapchain's export fields, cur_swap and
\* every frame ring stay as they are, nothing is sent or copied, and the
\* next layer's QueuePresentKHR is called once.
C34_PassThroughChangesNothing ==
    [][(/\ last'.op = "QueuePresentKHR"
        /\ ~valid[last'.dev] \/ ~queues[last'.dev].supports_transfer)
       => /\ UNCHANGED <<connfd, capturing, limiter, devices, valid, cur_swap,
                         swaps, queues, appSwaps, crashed, hazard>>
          /\ last'.next_calls = 1
          /\ ~last'.copied
          /\ last'.sent = "none"]_vars

\* C34 witness: the valid device d2 has presented on its queue without
\* transfer support while d1's export is live and the socket is open
C34_Witness ==
    /\ last.op = "QueuePresentKHR" /\ last.dev = "d2"
    /\ valid["d2"] /\ ~queues["d2"].supports_transfer
    /\ connfd >= 0 /\ capturing /\ cur_swap["d1"] = "s1"
    /\ last.next_calls = 1

\* C35: on one wake of a readable client the server thread leaves the
\* recvmsg loop after a ClientInfo message and stays in it, on the same
\* client, after a TextureInfo whose fds it installed; every message it read
\* was either applied (the ClientInfo stored, the buffer installed) or ended
\* in the cleanup of the client that sent it.
C35_DrainsOneWake ==
    /\ [](/\ lastRecv.op = "installed" => thr.pc = "recv"
          /\ lastRecv.op = "client" =>
                \A j \in DOMAIN server.clients :
                    server.clients[j].id = lastRecv.id =>
                        server.clients[j].cdata = lastRecv.ver
          /\ lastRecv.op \in {"other", "nocmsg", "mismatch", "overflow"} =>
                \A j \in DOMAIN server.clients : server.clients[j].id # lastRecv.id)
    /\ [][(thr.pc = "recv" /\ thr' # thr /\ lastRecv'.op = "client")
             => thr'.pc = "scan" /\ thr'.i = thr.i + 1]_vars

\* C36: a present whose capture_update_socket passes the limiter with the
\* socket open leaves connfd as it is when recv returns one byte or reports
\* EAGAIN/EWOULDBLOCK, and leaves it -1 when recv returns 0 or fails with
\* any other error; when that happens while capturing, the same present
\* ends with capturing false, cur_swap NULL, no export left on the device's
\* swapchains and no copy submitted.
C36_RecvClosesAndTearsDown ==
    [][(last'.op = "QueuePresentKHR" /\ last'.rcv # "none" /\ limiter' # limiter
        /\ connfd >= 0)
       => /\ connfd' = IF last'.rcv \in {"byte", "eagain"} THEN connfd ELSE -1
          /\ (capturing /\ connfd' < 0) =>
                /\ ~capturing'
                /\ cur_swap'[last'.dev] = NULL
                /\ \A h \in Handles :
                      swaps'[last'.dev][h] # NoSwap =>
                          /\ swaps'[last'.dev][h].export_image = "null"
                          /\ swaps'[last'.dev][h].export_mem = "null"
                          /\ swaps'[last'.dev][h].dmabuf_fd = -1
                /\ ~last'.copied]_vars

\* C36 witness: recv failed with ECONNRESET in a present of a swapchain that
\* had been exported; the socket is closed and the export released
C36_Witness ==
    /\ last.op = "QueuePresentKHR" /\ last.rcv = "econnreset"
    /\ connfd < 0 /\ ~capturing
    /\ swaps[last.dev][last.sc] # NoSwap
    /\ swaps[last.dev][last.sc].exports >= 1
    /\ swaps[last.dev][last.sc].dmabuf_fd = -1

\* C37: of two presents that run at the same time on two threads, at most
\* one performs export init (creates an export image and sends a
\* TextureInfo) and at most one attempts to connect.
C37_OneInitOneConnect ==
    /\ ~(inflight["t1"].inited /\ inflight["t2"].inited)
    /\ ~(inflight["t1"].tried /\ inflight["t2"].tried)

\* C38: no swapchain has had vk_shtex_init_vulkan_tex store an export image,
\* memory or fd over one that was still live.
C38_InitNeverOverLiveExport ==
    \A d \in Devices : \A h \in Handles :
        swaps[d][h] # NoSwap => ~swaps[d][h].lost

\* C39: no thread holds two mutexes at once, none calls pthread_mutex_lock
\* on a mutex it holds, and a thread that waits for a mutex waits for a
\* thread that is not waiting itself, so no set of threads waits in a circle.
C39_OneMutexAtATime ==
    \A t \in LockThreads :
        /\ Cardinality({m \in Mutexes : mutex[m] = t}) <= 1
        /\ (locking[t] # <<>> /\ Head(locking[t]).op = "lock") =>
              LET holder == mutex[Head(locking[t]).m]
              IN  /\ holder # t
                  /\ holder # NULL =>
                        /\ locking[holder] # <<>>
                        /\ Head(locking[holder]).op = "unlock"

\* C39 witness: a layer thread is inside vk_shtex_free's walk of d1's swaps
\* while the other waits for that mutex, and the video tick waits for
\* server.mutex, which the server thread holds before a cleanup
C39_Witness ==
    /\ mutex[<<"swaps", "d1">>] = "t1"
    /\ locking["t1"] = <<[op |-> "unlock", m |-> <<"swaps", "d1">>]>>
                           \o Section(<<"swaps", "d1">>)
    /\ locking["t2"] # <<>> /\ Head(locking["t2"]) = [op |-> "lock", m |-> <<"swaps", "d1">>]
    /\ mutex[<<"server", NULL>>] = "server_thread_run"
    /\ Len(locking["server_thread_run"]) = 3
    /\ locking["video_tick"] = Section(<<"server", NULL>>)

\* C40: after a tick that found the buf_id of the source's client different
\* from the source's, the source's buf_id is the client's, with or without
\* a texture; and while the two are equal no step changes the source's
\* texture or buf_id, so a failed import is not tried again and the source
\* stays without texture until the client has a new buf_id.
C40_FailedImportNotRetried ==
    /\ [](lastTick.imported => ctx.buf_id = lastTick.buf_id)
    /\ [][\A j \in DOMAIN server.clients :
            (/\ ctx.client_id # 0
             /\ server.clients[j].id = ctx.client_id
             /\ ctx' # ctx)
            => /\ ctx'.buf_id = server.clients[j].buf_id
               /\ server.clients[j].buf_id = ctx.buf_id =>
                     ctx'.texture = ctx.texture]_vars

\* C40 witness: an import failed (the source has a buf_id and no texture)
\* and a later tick found the same client with the same buf_id and did not
\* import
C40_Witness ==
    /\ ~lastTick.imported /\ lastTick.found # 0
    /\ ~ctx.texture /\ ctx.buf_id # 0
    /\ \E j \in DOMAIN server.clients :
          /\ server.clients[j].id = ctx.client_id
          /\ server.clients[j].buf_id = ctx.buf_id

====
